---- MODULE Spec2Model ----
(***************************************************************************)
(* A model of the Mython interpreter: the layout-aware lexer (lexer.cpp,   *)
(* lexer.h), the executable statement tree (statement.cpp) and the value   *)
(* model (runtime.cpp).                                                    *)
(*                                                                         *)
(* LexSpec feeds the Lexer constructor one input line per step.            *)
(* Spec executes top-level statements against the root closure.            *)
(***************************************************************************)
EXTENDS Integers, Sequences, FiniteSets, TLC

VARIABLES
    tokens_,        \* Lexer::tokens_
    indent_size_,   \* Lexer::indent_size_
    current_token_index_,  \* Lexer::current_token_index_
    lex_pc,         \* where the Lexer constructor is: "lines", "done", "hang"
    lex_used,       \* characters of input handed to getline so far
    lex_line,       \* the line getline delivered last
    lex_mark        \* the length of tokens_ before that line was processed

lexvars == <<tokens_, indent_size_, current_token_index_, lex_pc, lex_used, lex_line,
             lex_mark>>

VARIABLES
    closure,        \* the root Closure of RunMythonProgram
    heap,           \* the ClassInstance objects ever constructed, by identity
    output,         \* the characters written to the Context's output stream
    status,         \* "ok", or how the run ended: "error", "crash", "escaped"
    stmt,           \* the top-level statement executed last
    result,         \* the holder that statement's Execute returned
    steps           \* the number of top-level statements executed

runvars == <<closure, heap, output, status, stmt, result, steps>>

vars == <<lexvars, runvars>>

(***************************************************************************)
(* The value model.  A holder (ObjectHolder) is a record:                  *)
(*   [k |-> "None"]                      the empty holder                  *)
(*   [k |-> "Number", v |-> n]   [k |-> "String", v |-> chars]             *)
(*   [k |-> "Bool", v |-> b]     [k |-> "Class", v |-> name]               *)
(*   [k |-> "Inst", id |-> i, own |-> b]  a ClassInstance: heap[i];        *)
(*        own = FALSE for the non-owning holder of ObjectHolder::Share     *)
(* Text (String values, the output) is a sequence of characters.           *)
(***************************************************************************)
NoneH == [k |-> "None"]
NumberH(n) == [k |-> "Number", v |-> n]
StringH(s) == [k |-> "String", v |-> s]
BoolH(b) == [k |-> "Bool", v |-> b]
ClassH(c) == [k |-> "Class", v |-> c]
\* ObjectHolder::Own of instance i
Own(i) == [k |-> "Inst", id |-> i, own |-> TRUE]
\* ObjectHolder::Share of instance i: a shared_ptr whose deleter does nothing
Share(i) == [k |-> "Inst", id |-> i, own |-> FALSE]

\* Closure: a map from names to holders
EmptyClosure == [n \in {} |-> NoneH]
Put(c, n, h) == [m \in (DOMAIN c) \cup {n} |-> IF m = n THEN h ELSE c[m]]
\* unordered_map::emplace keeps an entry that is already there
Emplace(c, n, h) == IF n \in DOMAIN c THEN c ELSE Put(c, n, h)

\* A holder of a ClassInstance that has been destroyed.  Every use of the object
\* behind it (TryAs, operator->) is a use after free, which is undefined
\* behaviour: the build (-fsanitize=address, CMakeLists) aborts where its
\* instrumented code touches the freed object, and anything may happen where
\* it does not.  The model follows such a run no further: it ends in status
\* "crash", which stands for every one of these outcomes.
Dangling(hp, h) == h.k = "Inst" /\ ~hp[h.id].alive

IsTrue(h) ==
    CASE h.k = "Bool"   -> h.v
      [] h.k = "Number" -> h.v # 0
      [] h.k = "String" -> h.v # <<>>
      [] OTHER          -> FALSE

(***************************************************************************)
(* Syntax trees (statement.h).  A node is a record with its kind in t.     *)
(***************************************************************************)
Null == [t |-> "null"]
Const(h) == [t |-> "Const", v |-> h]
Var(ids) == [t |-> "VariableValue", dotted_ids |-> ids]
Assign(var, rv) == [t |-> "Assignment", var |-> var, rv |-> rv]
FieldAssign(object, field, rv) ==
    [t |-> "FieldAssignment", object |-> object, field_name |-> field, rv |-> rv]
\* site: the identity of the node, which owns its ClassInstance member cls_
New(site, args) == [t |-> "NewInstance", site |-> site, args |-> args]
Call(object, method, args) ==
    [t |-> "MethodCall", object |-> object, method_name |-> method, args |-> args]
Block(statements) == [t |-> "Compound", statements |-> statements]
Ret(statement) == [t |-> "Return", statement |-> statement]
Body(body) == [t |-> "MethodBody", body |-> body]
Prt(args) == [t |-> "Print", args |-> args]
OrN(lhs, rhs) == [t |-> "Or", lhs |-> lhs, rhs |-> rhs]
AndN(lhs, rhs) == [t |-> "And", lhs |-> lhs, rhs |-> rhs]
AddN(lhs, rhs) == [t |-> "Add", lhs |-> lhs, rhs |-> rhs]
If(condition, if_body, else_body) ==
    [t |-> "IfElse", condition |-> condition, if_body |-> if_body, else_body |-> else_body]

Str(argument) == [t |-> "Stringify", argument |-> argument]
\* cmp names the Comparator: "Equal", "NotEqual", "Less", "Greater",
\* "LessOrEqual" or "GreaterOrEqual"
Cmp(cmp, lhs, rhs) == [t |-> "Comparison", cmp |-> cmp, lhs |-> lhs, rhs |-> rhs]

Method(name, formal_params, body) ==
    [name |-> name, formal_params |-> formal_params, body |-> Body(body)]

(***************************************************************************)
(* Bounds of the lexer's input.                                            *)
(***************************************************************************)
\* total size of the input: every line costs its length plus one
MaxInput == 5
\* most leading spaces of a line (they are not charged to MaxInput)
MaxIndent == 3

\* the characters input lines are made of (after their leading spaces)
BodyChars == {" ", "#", "a", "1", "\"", "'", "\\", "=", ":", "~"}

\* the value of F at v, with v evaluated once (a local variable of the code)
Bind(v, F(_)) == CHOOSE r \in {F(w) : w \in {v}} : TRUE

RECURSIVE Spaces(_)
Spaces(n) == IF n = 0 THEN <<>> ELSE <<" ">> \o Spaces(n - 1)

RECURSIVE SeqsUpTo(_, _)
SeqsUpTo(S, n) ==
    IF n = 0 THEN {<<>>}
    ELSE LET shorter == SeqsUpTo(S, n - 1)
         IN  shorter \cup {Append(s, c) : s \in {t \in shorter : Len(t) = n - 1}, c \in S}

\* the lines getline may deliver when `room` characters of input are left
LinesWithin(room) ==
    {Spaces(n) \o b : n \in 0..MaxIndent, b \in SeqsUpTo(BodyChars, room - 1)}

(***************************************************************************)
(* Characters and the input stream (std::istream over one line).           *)
(***************************************************************************)
\* istream's EOF (int -1), and the char it becomes when stored in a char
EOFC == "EOF"

isdigit(c) == c \in {"0", "1", "2", "3", "4", "5", "6", "7", "8", "9"}
isalpha(c) ==
    c \in {"a", "b", "c", "d", "e", "f", "g", "h", "i", "j", "k", "l", "m",
           "n", "o", "p", "q", "r", "s", "t", "u", "v", "w", "x", "y", "z",
           "A", "B", "C", "D", "E", "F", "G", "H", "I", "J", "K", "L", "M",
           "N", "O", "P", "Q", "R", "S", "T", "U", "V", "W", "X", "Y", "Z"}
isalnum(c) == isdigit(c) \/ isalpha(c)

SPECIAL_SYMBOLS == {"'", "\"", "n", "t"}
SPECIAL_OPERATORS == {"=", "!", "<", ">"}

SPECIAL_OPERATORS_TOKEN(sign) ==
    CASE sign = <<"=", "=">> -> [type |-> "Eq"]
      [] sign = <<"!", "=">> -> [type |-> "NotEq"]
      [] sign = <<"<", "=">> -> [type |-> "LessOrEq"]
      [] sign = <<">", "=">> -> [type |-> "GreaterOrEq"]

IsSpecialChar(c) ==
    c \in {".", ",", "(", "+", ")", "-", "*", "/", ":", "@", "%", "$", "^", "&",
           ";", "?", "=", "<", ">", "!", "{", "}", "[", "]"}

\* a stream is [rest: the characters not yet read, eof: eofbit]
Stream(line) == [rest |-> line, eof |-> FALSE]
\* peek(): the next character, or EOF; at the end it sets eofbit
Peek(in) == IF in.rest = <<>> THEN EOFC ELSE Head(in.rest)
Peeked(in) == IF in.rest = <<>> THEN [in EXCEPT !.eof = TRUE] ELSE in
\* get() / ignore(): consume one character; at the end set eofbit
Got(in) == IF in.rest = <<>> THEN [in EXCEPT !.eof = TRUE]
           ELSE [in EXCEPT !.rest = Tail(in.rest)]
Putback(in, c) == [rest |-> <<c>> \o in.rest, eof |-> FALSE]

(***************************************************************************)
(* ReadString(input, pred).  The predicate is named by p:                  *)
(*   [k |-> "digit"], [k |-> "word"], [k |-> "until", end |-> quote].      *)
(***************************************************************************)
Pred(p, c) ==
    CASE p.k = "digit" -> isdigit(c)
      [] p.k = "word"  -> c = "_" \/ isalnum(c)
      [] p.k = "until" -> c # p.end

\* the while loop: r = [in, result, c, brk]
RECURSIVE ReadLoop(_, _)
ReadLoop(p, r) ==
    IF r.in.eof THEN r
    ELSE LET c   == Peek(r.in)
             in1 == Got(r.in)
         IN  IF ~Pred(p, c) THEN [r EXCEPT !.in = in1, !.c = c]
             ELSE IF c = "\\"
             THEN LET ch  == Peek(in1)
                      in2 == Got(in1)
                      ch2 == IF ch = "n" THEN "\n" ELSE IF ch = "t" THEN "\t" ELSE ch
                  IN  ReadLoop(p, [in |-> in2, c |-> c,
                                   result |-> IF ch \in SPECIAL_SYMBOLS
                                              THEN Append(r.result, ch2)
                                              ELSE r.result])
             ELSE ReadLoop(p, [in |-> in1, c |-> c, result |-> Append(r.result, c)])

ReadString(input, p) ==
    Bind(ReadLoop(p, [in |-> input, result |-> <<>>, c |-> EOFC]), LAMBDA r :
        IF r.c # EOFC /\ ~Pred(p, r.c) /\ r.c # "'" /\ r.c # "\""
        THEN [in |-> Putback(r.in, r.c), result |-> r.result]
        ELSE [in |-> r.in, result |-> r.result])

\* StringIsComment that takes only a line of spaces for one (a line whose first
\* character after the spaces is # goes on to ParseString)
StringIsComment_BlankOnly(str) == \A i \in 1..Len(str) : str[i] = " "

StringIsComment(str) ==
    LET nonspace == {i \in 1..Len(str) : str[i] # " "}
    IN  IF nonspace = {} THEN TRUE
        ELSE str[CHOOSE i \in nonspace : \A j \in nonspace : i <= j] = "#"

(***************************************************************************)
(* The Load* members.  A lexer state is L = [tokens, indent, in, hang].    *)
(***************************************************************************)
DigitValue(c) ==
    CASE c = "0" -> 0 [] c = "1" -> 1 [] c = "2" -> 2 [] c = "3" -> 3 [] c = "4" -> 4
      [] c = "5" -> 5 [] c = "6" -> 6 [] c = "7" -> 7 [] c = "8" -> 8 [] c = "9" -> 9

RECURSIVE stoi(_)
stoi(digits) ==
    IF digits = <<>> THEN 0
    ELSE 10 * stoi(SubSeq(digits, 1, Len(digits) - 1)) + DigitValue(digits[Len(digits)])

\* KEY_WORDS_TOKEN.find(word): <<the token>>, or <<>> for end()
KEY_WORDS_TOKEN(word) ==
    CASE word = <<"c", "l", "a", "s", "s">> -> <<[type |-> "Class"]>>
      [] word = <<"r", "e", "t", "u", "r", "n">> -> <<[type |-> "Return"]>>
      [] word = <<"i", "f">> -> <<[type |-> "If"]>>
      [] word = <<"e", "l", "s", "e">> -> <<[type |-> "Else"]>>
      [] word = <<"d", "e", "f">> -> <<[type |-> "Def"]>>
      [] word = <<"p", "r", "i", "n", "t">> -> <<[type |-> "Print"]>>
      [] word = <<"a", "n", "d">> -> <<[type |-> "And"]>>
      [] word = <<"o", "r">> -> <<[type |-> "Or"]>>
      [] word = <<"n", "o", "t">> -> <<[type |-> "Not"]>>
      [] word = <<"N", "o", "n", "e">> -> <<[type |-> "None"]>>
      [] word = <<"T", "r", "u", "e">> -> <<[type |-> "True"]>>
      [] word = <<"F", "a", "l", "s", "e">> -> <<[type |-> "False"]>>
      [] OTHER -> <<>>

Push(L, tok) == [L EXCEPT !.tokens = Append(L.tokens, tok)]

LoadChar(L, c) == Push(L, [type |-> "Char", value |-> c])

LoadEof(L) == Push(L, [type |-> "Eof"])

LoadEndl(L) ==
    IF L.tokens # <<>> /\ L.tokens[Len(L.tokens)].type # "Newline"
    THEN Push(L, [type |-> "Newline"])
    ELSE L

\* LoadDedent that leaves the level in one step, with a single Dedent token
LoadDedent_Once(L, current_indent) ==
    IF L.indent > current_indent
    THEN Push([L EXCEPT !.indent = current_indent], [type |-> "Dedent"])
    ELSE L

RECURSIVE LoadDedent(_, _)
LoadDedent(L, current_indent) ==
    IF L.indent > current_indent
    THEN LoadDedent(Push([L EXCEPT !.indent = L.indent - 2], [type |-> "Dedent"]),
                    current_indent)
    ELSE L

RECURSIVE LoadIndent(_, _)
LoadIndent(L, current_indent) ==
    IF L.indent < current_indent
    THEN LoadIndent(Push([L EXCEPT !.indent = L.indent + 2], [type |-> "Indent"]),
                    current_indent)
    ELSE L

LoadNumber(L) ==
    Bind(ReadString(L.in, [k |-> "digit"]), LAMBDA r :
        Push([L EXCEPT !.in = r.in], [type |-> "Number", value |-> stoi(r.result)]))

LoadString(L) ==
    Bind(ReadString(Got(L.in), [k |-> "until", end |-> Peek(L.in)]), LAMBDA r :
        Push([L EXCEPT !.in = r.in], [type |-> "String", value |-> r.result]))

LoadWord(L) ==
    Bind(ReadString(L.in, [k |-> "word"]), LAMBDA r :
        Push([L EXCEPT !.in = r.in],
             IF KEY_WORDS_TOKEN(r.result) # <<>> THEN KEY_WORDS_TOKEN(r.result)[1]
             ELSE [type |-> "Id", value |-> r.result]))

LoadSign(L) ==
    LET first == Peek(L.in)
        in1   == Got(L.in)
    IN  IF Peek(in1) = "="
        THEN Push([L EXCEPT !.in = Got(in1)], SPECIAL_OPERATORS_TOKEN(<<first, "=">>))
        ELSE LoadChar([L EXCEPT !.in = Peeked(in1)], first)

\* the number of leading spaces LoadTab's do-while skips
RECURSIVE CountSpaces(_)
CountSpaces(s) == IF s # <<>> /\ Head(s) = " " THEN 1 + CountSpaces(Tail(s)) ELSE 0

LoadTab(L) ==
    IF Peek(L.in) = " "
    THEN LET i   == CountSpaces(L.in.rest)
             in1 == Peeked([L.in EXCEPT !.rest = SubSeq(L.in.rest, i + 1, Len(L.in.rest))])
             L1  == [L EXCEPT !.in = in1]
         IN  IF i > L.indent THEN LoadIndent(L1, i) ELSE LoadDedent(L1, i)
    ELSE LoadDedent([L EXCEPT !.in = Peeked(L.in)], 0)

\* One pass through the body of LoadTokens' while loop, one operator per `if`
\* (lines 212-218, 209-211, 206-208, 203-205, 200-202, 197-199); brk: left by break.
TrySpecial(L) ==
    IF IsSpecialChar(Peek(L.in))
    THEN IF Peek(L.in) \in SPECIAL_OPERATORS THEN LoadSign(L)
         ELSE LoadChar([L EXCEPT !.in = Got(L.in)], Peek(L.in))
    ELSE L

TryWord(L) ==
    TrySpecial(IF Peek(L.in) = "_" \/ isalpha(Peek(L.in)) THEN LoadWord(L) ELSE L)

TryString(L) ==
    TryWord(IF Peek(L.in) = "\"" \/ Peek(L.in) = "'" THEN LoadString(L) ELSE L)

TryNumber(L) ==
    TryString(IF isdigit(Peek(L.in)) THEN LoadNumber(L) ELSE L)

TryComment(L) ==
    IF Peek(L.in) = "#" THEN [L EXCEPT !.brk = TRUE]
    ELSE TryNumber(L)

LoadTokensBody(L) ==
    Bind(TryComment(IF Peek(L.in) = " " THEN [L EXCEPT !.in = Got(L.in)] ELSE L),
         LAMBDA L1 : [L1 EXCEPT !.in = Peeked(L1.in)])

\* while (!input.eof()) { body }.  A pass that changes nothing while eofbit is
\* clear repeats for ever: the loop hangs.
RECURSIVE LoadTokens(_)
LoadTokens(L) ==
    IF L.in.eof THEN L
    ELSE Bind(LoadTokensBody(L), LAMBDA L1 :
             IF L1.brk THEN L1
             ELSE IF L1 = L THEN [L EXCEPT !.hang = TRUE]
             ELSE LoadTokens(L1))

ParseString(L) == LoadTokens(LoadTab(L))

\* the body of ParseTextOnTokens' while (getline(input, line))
ParseLine(tokens, indent, line) ==
    LET L0 == [tokens |-> tokens, indent |-> indent, in |-> Stream(line),
               hang |-> FALSE, brk |-> FALSE]
    IN  IF StringIsComment(line) THEN L0
        ELSE Bind(ParseString(L0), LAMBDA L1 : IF L1.hang THEN L1 ELSE LoadEndl(L1))

(***************************************************************************)
(* The Lexer constructor as a state machine.                               *)
(***************************************************************************)
LexInit ==
    /\ tokens_ = <<>>
    /\ indent_size_ = 0
    /\ current_token_index_ = 0
    /\ lex_pc = "lines"
    /\ lex_used = 0
    /\ lex_line = <<>>
    /\ lex_mark = 0

\* getline delivered `line`: one pass of the loop of ParseTextOnTokens
GetLine ==
    /\ lex_pc = "lines"
    /\ lex_used < MaxInput
    /\ \E line \in LinesWithin(MaxInput - lex_used) :
          \E L \in {ParseLine(tokens_, indent_size_, line)} :
              /\ tokens_' = L.tokens
              /\ indent_size_' = L.indent
              /\ lex_pc' = IF L.hang THEN "hang" ELSE "lines"
              /\ lex_used' = lex_used + (Len(line) - CountSpaces(line)) + 1
              /\ lex_line' = line
              /\ lex_mark' = Len(tokens_)
    /\ UNCHANGED <<current_token_index_, runvars>>

\* getline failed (end of input): LoadDedent(); LoadEof(); NextToken()
EndOfInput ==
    /\ lex_pc = "lines"
    /\ \E L \in {LoadEof(LoadDedent([tokens |-> tokens_, indent |-> indent_size_], 0))} :
           /\ tokens_' = L.tokens
           /\ indent_size_' = L.indent
    /\ current_token_index_' = current_token_index_ + 1
    /\ lex_pc' = "done"
    /\ UNCHANGED <<lex_used, lex_line, lex_mark, runvars>>

\* LoadTokens spins on a character that starts no token
Hang ==
    /\ lex_pc = "hang"
    /\ UNCHANGED vars

LexNext == GetLine \/ EndOfInput \/ Hang


(***************************************************************************)
(* The program under execution: its class definitions.                     *)
(*                                                                         *)
(*   class Z:                        class Dummy:                          *)
(*     def f():                        def do_add(counter):                *)
(*       print "NO"                      counter.add()                     *)
(*       self.hit = 1                  def put(c, v):                      *)
(*       return True                     c.value = v                       *)
(*                                     def relay(c, flag):                 *)
(*   class Counter:                      r = c.get(flag)                   *)
(*     def __init__():                   print "c"                         *)
(*       self.value = 0                  return r                          *)
(*     def add():                                                          *)
(*       self.value = self.value + 1                                       *)
(*     def me():                                                           *)
(*       return self                                                       *)
(*     def reg(d):                                                         *)
(*       d.other = self                                                    *)
(*     def get(flag):                                                      *)
(*       print "a"                                                         *)
(*       if flag:                                                          *)
(*         if self.value:                                                  *)
(*           return self.value                                             *)
(*         else:                                                           *)
(*           return "z"                                                    *)
(*         print "x"                                                       *)
(*       print "b"                                                         *)
(***************************************************************************)
ClassZ ==
    [name |-> "Z", parent |-> "",
     methods |-> <<
        Method("f", <<>>, Block(<<
            Prt(<<Const(StringH(<<"N", "O">>))>>),
            FieldAssign(Var(<<"self">>), "hit", Const(NumberH(1))),
            Ret(Const(BoolH(TRUE)))>>))>>]

ClassCounter ==
    [name |-> "Counter", parent |-> "",
     methods |-> <<
        Method("__init__", <<>>, Block(<<
            FieldAssign(Var(<<"self">>), "value", Const(NumberH(0)))>>)),
        Method("add", <<>>, Block(<<
            FieldAssign(Var(<<"self">>), "value",
                        AddN(Var(<<"self", "value">>), Const(NumberH(1))))>>)),
        Method("me", <<>>, Block(<<Ret(Var(<<"self">>))>>)),
        Method("reg", <<"d">>, Block(<<
            FieldAssign(Var(<<"d">>), "other", Var(<<"self">>))>>)),
        Method("get", <<"flag">>, Block(<<
            Prt(<<Const(StringH(<<"a">>))>>),
            If(Var(<<"flag">>),
               Block(<<
                   If(Var(<<"self", "value">>),
                      Block(<<Ret(Var(<<"self", "value">>))>>),
                      Block(<<Ret(Const(StringH(<<"z">>)))>>)),
                   Prt(<<Const(StringH(<<"x">>))>>)>>),
               Null),
            Prt(<<Const(StringH(<<"b">>))>>)>>))>>]

ClassDummy ==
    [name |-> "Dummy", parent |-> "",
     methods |-> <<
        Method("do_add", <<"counter">>, Block(<<
            Call(Var(<<"counter">>), "add", <<>>)>>)),
        Method("put", <<"c", "v">>, Block(<<
            FieldAssign(Var(<<"c">>), "value", Var(<<"v">>))>>)),
        Method("relay", <<"c", "flag">>, Block(<<
            Assign("r", Call(Var(<<"c">>), "get", <<Var(<<"flag">>)>>)),
            Prt(<<Const(StringH(<<"c">>))>>),
            Ret(Var(<<"r">>))>>))>>]

(***************************************************************************)
(* A second program, of classes that inherit:                              *)
(*   class Base:                                                           *)
(*     def who():                                                          *)
(*       return "B"                                                        *)
(*     def root():                                                         *)
(*       return "r"                                                        *)
(*   class Mid(Base):                                                      *)
(*     def who():                                                          *)
(*       return "M"                                                        *)
(*     def mid():                                                          *)
(*       return "m"                                                        *)
(*   class Leaf(Mid):                                                      *)
(*     def root():                                                         *)
(*       return "L"                                                        *)
(*     def leaf():                                                         *)
(*       return "l"                                                        *)
(***************************************************************************)
ClassBase ==
    [name |-> "Base", parent |-> "",
     methods |-> <<
        Method("who", <<>>, Block(<<Ret(Const(StringH(<<"B">>)))>>)),
        Method("root", <<>>, Block(<<Ret(Const(StringH(<<"r">>)))>>))>>]

ClassMid ==
    [name |-> "Mid", parent |-> "Base",
     methods |-> <<
        Method("who", <<>>, Block(<<Ret(Const(StringH(<<"M">>)))>>)),
        Method("mid", <<>>, Block(<<Ret(Const(StringH(<<"m">>)))>>))>>]

ClassLeaf ==
    [name |-> "Leaf", parent |-> "Mid",
     methods |-> <<
        Method("root", <<>>, Block(<<Ret(Const(StringH(<<"L">>)))>>)),
        Method("leaf", <<>>, Block(<<Ret(Const(StringH(<<"l">>)))>>))>>]

(***************************************************************************)
(* Classes whose methods raise (nope is a name nobody binds):              *)
(*   class Faulty:                                                         *)
(*     def boom():                                                         *)
(*       print "1"                                                         *)
(*       t = nope                                                          *)
(*       print "2"                                                         *)
(*     def outer():                                                        *)
(*       print "o"                                                         *)
(*       self.boom()                                                       *)
(*       print "p"                                                         *)
(*       return 1                                                          *)
(*     def cond(flag):                                                     *)
(*       if flag:                                                          *)
(*         self.boom()                                                     *)
(*       else:                                                             *)
(*         self.outer()                                                    *)
(*       print "q"                                                         *)
(*       return 2                                                          *)
(*   class Broken:                                                         *)
(*     def __init__():                                                     *)
(*       print "i"                                                         *)
(*       self.v = nope                                                     *)
(*       print "j"                                                         *)
(*   class Maker:                                                          *)
(*     def make():                                                         *)
(*       print "m"                                                         *)
(*       b = Broken()                                                      *)
(*       print "n"                                                         *)
(*       return b                                                          *)
(***************************************************************************)
ClassFaulty ==
    [name |-> "Faulty", parent |-> "",
     methods |-> <<
        Method("boom", <<>>, Block(<<
            Prt(<<Const(StringH(<<"1">>))>>),
            Assign("t", Var(<<"nope">>)),
            Prt(<<Const(StringH(<<"2">>))>>)>>)),
        Method("outer", <<>>, Block(<<
            Prt(<<Const(StringH(<<"o">>))>>),
            Call(Var(<<"self">>), "boom", <<>>),
            Prt(<<Const(StringH(<<"p">>))>>),
            Ret(Const(NumberH(1)))>>)),
        Method("cond", <<"flag">>, Block(<<
            If(Var(<<"flag">>),
               Block(<<Call(Var(<<"self">>), "boom", <<>>)>>),
               Block(<<Call(Var(<<"self">>), "outer", <<>>)>>)),
            Prt(<<Const(StringH(<<"q">>))>>),
            Ret(Const(NumberH(2)))>>))>>]

ClassBroken ==
    [name |-> "Broken", parent |-> "",
     methods |-> <<
        Method("__init__", <<>>, Block(<<
            Prt(<<Const(StringH(<<"i">>))>>),
            FieldAssign(Var(<<"self">>), "v", Var(<<"nope">>)),
            Prt(<<Const(StringH(<<"j">>))>>)>>))>>]

ClassMaker ==
    [name |-> "Maker", parent |-> "",
     methods |-> <<
        Method("make", <<>>, Block(<<
            Prt(<<Const(StringH(<<"m">>))>>),
            Assign("b", New(7, <<>>)),          \* 7 is SiteOf("Broken")
            Prt(<<Const(StringH(<<"n">>))>>),
            Ret(Var(<<"b">>))>>))>>]

(***************************************************************************)
(* A class whose methods show their environment:                           *)
(*   class Scope:                                                          *)
(*     def first(a, b):                                                    *)
(*       return a                                                          *)
(*     def second(a, b):                                                   *)
(*       return b                                                          *)
(*     def me():                                                           *)
(*       return self                                                       *)
(*     def local(a):                                                       *)
(*       t = a                                                             *)
(*       return t                                                          *)
(*     def peek():                                                         *)
(*       return x                                                          *)
(*     def own(self):                                                      *)
(*       return self                                                       *)
(***************************************************************************)
ClassScope ==
    [name |-> "Scope", parent |-> "",
     methods |-> <<
        Method("first", <<"a", "b">>, Block(<<Ret(Var(<<"a">>))>>)),
        Method("second", <<"a", "b">>, Block(<<Ret(Var(<<"b">>))>>)),
        Method("me", <<>>, Block(<<Ret(Var(<<"self">>))>>)),
        Method("local", <<"a">>, Block(<<
            Assign("t", Var(<<"a">>)),
            Ret(Var(<<"t">>))>>)),
        Method("peek", <<>>, Block(<<Ret(Var(<<"x">>))>>)),
        Method("own", <<"self">>, Block(<<Ret(Var(<<"self">>))>>))>>]

(***************************************************************************)
(* Classes with __str__:                                                   *)
(*   class Named:                                                          *)
(*     def __init__(v):                                                    *)
(*       self.v = v                                                        *)
(*     def __str__():                                                      *)
(*       return self.v                                                     *)
(*   class Loud:                                                           *)
(*     def __str__():                                                      *)
(*       print "q"                                                         *)
(*       return "s"                                                        *)
(***************************************************************************)
ClassNamed ==
    [name |-> "Named", parent |-> "",
     methods |-> <<
        Method("__init__", <<"v">>, Block(<<
            FieldAssign(Var(<<"self">>), "v", Var(<<"v">>))>>)),
        Method("__str__", <<>>, Block(<<Ret(Var(<<"self", "v">>))>>))>>]

ClassLoud ==
    [name |-> "Loud", parent |-> "",
     methods |-> <<
        Method("__str__", <<>>, Block(<<
            Prt(<<Const(StringH(<<"q">>))>>),
            Ret(Const(StringH(<<"s">>)))>>))>>]

(***************************************************************************)
(* A NewInstance node that is executed again and again:                    *)
(*   class Tagged:                                                         *)
(*     def __init__(flag):                                                 *)
(*       self.me = self                                                    *)
(*       if flag:                                                          *)
(*         self.extra = 1                                                  *)
(*   class Factory:                                                        *)
(*     def make(flag):                                                     *)
(*       return Tagged(flag)                                               *)
(***************************************************************************)
ClassTagged ==
    [name |-> "Tagged", parent |-> "",
     methods |-> <<
        Method("__init__", <<"flag">>, Block(<<
            FieldAssign(Var(<<"self">>), "me", Var(<<"self">>)),
            If(Var(<<"flag">>),
               Block(<<FieldAssign(Var(<<"self">>), "extra", Const(NumberH(1)))>>),
               Null)>>))>>]

ClassFactory ==
    [name |-> "Factory", parent |-> "",
     methods |-> <<
        Method("make", <<"flag">>, Block(<<
            Ret(New(13, <<Var(<<"flag">>)>>))>>))>>]     \* 13 is SiteOf("Tagged")

(***************************************************************************)
(* Methods of one name and different parameter counts                      *)
(* (TestMethodOverloading, with return values, and a child class):         *)
(*   class Over:                                                           *)
(*     def f(a):                                                           *)
(*       return 1                                                          *)
(*     def f(a, b):                                                        *)
(*       return 2                                                          *)
(*   class Narrow(Over):                                                   *)
(*     def f():                                                            *)
(*       return 0                                                          *)
(***************************************************************************)
ClassOver ==
    [name |-> "Over", parent |-> "",
     methods |-> <<
        Method("f", <<"a">>, Block(<<Ret(Const(NumberH(1)))>>)),
        Method("f", <<"a", "b">>, Block(<<Ret(Const(NumberH(2)))>>))>>]

ClassNarrow ==
    [name |-> "Narrow", parent |-> "Over",
     methods |-> <<
        Method("f", <<>>, Block(<<Ret(Const(NumberH(0)))>>))>>]

ClassNames ==
    {"Z", "Counter", "Dummy", "Base", "Mid", "Leaf", "Faulty", "Broken", "Maker", "Scope",
     "Named", "Loud", "Tagged", "Factory", "Over", "Narrow"}

ClassDef(c) ==
    CASE c = "Z" -> ClassZ
      [] c = "Counter" -> ClassCounter
      [] c = "Dummy" -> ClassDummy
      [] c = "Base" -> ClassBase
      [] c = "Mid" -> ClassMid
      [] c = "Leaf" -> ClassLeaf
      [] c = "Faulty" -> ClassFaulty
      [] c = "Broken" -> ClassBroken
      [] c = "Maker" -> ClassMaker
      [] c = "Scope" -> ClassScope
      [] c = "Named" -> ClassNamed
      [] c = "Loud" -> ClassLoud
      [] c = "Tagged" -> ClassTagged
      [] c = "Factory" -> ClassFactory
      [] c = "Over" -> ClassOver
      [] c = "Narrow" -> ClassNarrow

\* The NewInstance nodes of the programs, one for each class.  Each node owns
\* a ClassInstance member (cls_); heap[site] is that member.
SiteOf(c) ==
    CASE c = "Z" -> 1 [] c = "Counter" -> 2 [] c = "Dummy" -> 3
      [] c = "Base" -> 4 [] c = "Mid" -> 5 [] c = "Leaf" -> 6
      [] c = "Broken" -> 7 [] c = "Faulty" -> 8 [] c = "Maker" -> 9
      [] c = "Scope" -> 10 [] c = "Named" -> 11 [] c = "Loud" -> 12
      [] c = "Tagged" -> 13 [] c = "Factory" -> 14
      [] c = "Over" -> 15 [] c = "Narrow" -> 16
Sites == {SiteOf(c) : c \in ClassNames}

(***************************************************************************)
(* runtime.cpp: Class and ClassInstance.                                   *)
(***************************************************************************)
\* Class::GetMethod that asks the parent before it looks at the class's own methods
RECURSIVE GetMethod_ParentFirst(_, _)
GetMethod_ParentFirst(c, name) ==
    LET own == SelectSeq(ClassDef(c).methods, LAMBDA m : m.name = name)
        inherited == IF ClassDef(c).parent # ""
                     THEN GetMethod_ParentFirst(ClassDef(c).parent, name) ELSE <<>>
    IN  IF inherited # <<>> THEN inherited
        ELSE IF own # <<>> THEN <<own[1]>>
        ELSE <<>>

\* Class::GetMethod: the first method of that name, own methods before the
\* parent's; <<>> for nullptr, else <<method>>
RECURSIVE GetMethod(_, _)
GetMethod(c, name) ==
    LET own == SelectSeq(ClassDef(c).methods, LAMBDA m : m.name = name)
    IN  IF own # <<>> THEN <<own[1]>>
        ELSE IF ClassDef(c).parent # "" THEN GetMethod(ClassDef(c).parent, name)
        ELSE <<>>

\* ClassInstance::HasMethod of an instance of class c
HasMethod(c, method, argument_count) ==
    /\ GetMethod(c, method) # <<>>
    /\ Len(GetMethod(c, method)[1].formal_params) = argument_count

\* the loop of ClassInstance::Call that emplaces the actual arguments
RECURSIVE EmplaceParams(_, _, _)
EmplaceParams(c, formal_params, actual_args) ==
    IF actual_args = <<>> THEN c
    ELSE EmplaceParams(Emplace(c, Head(formal_params), Head(actual_args)),
                       Tail(formal_params), Tail(actual_args))

(***************************************************************************)
(* statement.cpp: Execute.  An execution state is                          *)
(*   S = [cl: the stack of Closures, the root first and the running        *)
(*            activation's last; heap; out: the output;                    *)
(*        sig: "ok", "return" (a RuntimeReturnExeption is in flight),      *)
(*             "error" (a std::runtime_error is), "crash" (use after free);*)
(*        val: the holder returned, or carried by the exception]           *)
(***************************************************************************)
Top(S) == S.cl[Len(S.cl)]
Ok(S, h) == [S EXCEPT !.val = h]
Throw(S) == [S EXCEPT !.sig = "error", !.val = NoneH]
Crash(S) == [S EXCEPT !.sig = "crash", !.val = NoneH]

RECURSIVE Execute(_, _)

\* the loop of VariableValue::Execute from index i on, closure_ptr pointing at c
RECURSIVE VariableValue_Walk(_, _, _)
VariableValue_Walk(S, c, ids) ==
    IF ids = <<>> THEN Ok(S, NoneH)
    ELSE IF Head(ids) \notin DOMAIN c THEN Throw(S)
    ELSE IF Len(ids) = 1 THEN Ok(S, c[Head(ids)])
    ELSE IF Dangling(S.heap, c[Head(ids)]) THEN Crash(S)
    ELSE IF c[Head(ids)].k # "Inst" THEN Throw(S)
    ELSE VariableValue_Walk(S, S.heap[c[Head(ids)].id].fields, Tail(ids))

VariableValue_Execute(node, S) == VariableValue_Walk(S, Top(S), node.dotted_ids)

Assignment_Execute(node, S) ==
    Bind(Execute(node.rv, S), LAMBDA S1 :
        IF S1.sig # "ok" THEN S1
        ELSE [S1 EXCEPT !.cl[Len(S1.cl)] = Put(@, node.var, S1.val)])

\* FieldAssignment::Execute that evaluates the right-hand side before it looks
\* at the target
FieldAssignment_Execute_RvFirst(node, S) ==
    Bind(Execute(node.rv, S), LAMBDA S2 :
        IF S2.sig # "ok" THEN S2
        ELSE Bind(VariableValue_Execute(node.object, S2), LAMBDA S1 :
                 IF S1.sig # "ok" THEN S1
                 ELSE IF Dangling(S1.heap, S1.val) THEN Crash(S1)
                 ELSE IF S1.val.k # "Inst" THEN Throw(S1)
                 ELSE [S1 EXCEPT !.heap[S1.val.id].fields = Put(@, node.field_name, S2.val)]))

FieldAssignment_Execute(node, S) ==
    Bind(VariableValue_Execute(node.object, S), LAMBDA S1 :
        IF S1.sig # "ok" THEN S1
        ELSE IF Dangling(S1.heap, S1.val) THEN Crash(S1)
        ELSE IF S1.val.k # "Inst" THEN Throw(S1)
        ELSE Bind(Execute(node.rv, S1), LAMBDA S2 :
                 IF S2.sig # "ok" THEN S2
                 ELSE [S2 EXCEPT !.heap[S1.val.id].fields = Put(@, node.field_name, S2.val)]))

\* for (arg : args_) actual_args.push_back(arg->Execute(closure, context));
\* R = [S, actual_args]
RECURSIVE ExecuteArgs(_, _)
ExecuteArgs(args, R) ==
    IF args = <<>> \/ R.S.sig # "ok" THEN R
    ELSE Bind(Execute(Head(args), R.S), LAMBDA S1 :
             ExecuteArgs(Tail(args), [S |-> S1, actual_args |-> Append(R.actual_args, S1.val)]))

\* ClassInstance::Call on heap[id]
ClassInstance_Call(S, id, method, actual_args) ==
    IF HasMethod(S.heap[id].cls, method, Len(actual_args))
    THEN Bind(GetMethod(S.heap[id].cls, method)[1], LAMBDA method_ptr :
            Bind(Execute(method_ptr.body,
                         [S EXCEPT !.cl = Append(@, Emplace(EmplaceParams(EmptyClosure,
                                                     method_ptr.formal_params, actual_args),
                                                            "self", Share(id)))]),
                 LAMBDA S1 : [S1 EXCEPT !.cl = SubSeq(@, 1, Len(@) - 1)]))
    ELSE Throw(S)

\* NewInstance::Execute that hands out its member cls_ instead of a new object
NewInstance_Execute_Member(node, S) ==
    Bind(ExecuteArgs(node.args, [S |-> S, actual_args |-> <<>>]), LAMBDA R :
        IF R.S.sig # "ok" THEN R.S
        ELSE Bind(IF HasMethod(R.S.heap[node.site].cls, "__init__", Len(node.args))
                  THEN ClassInstance_Call(R.S, node.site, "__init__", R.actual_args)
                  ELSE R.S,
                  LAMBDA S1 : IF S1.sig # "ok" THEN S1 ELSE Ok(S1, Share(node.site))))

NewInstance_Execute(node, S) ==
    Bind(ExecuteArgs(node.args, [S |-> S, actual_args |-> <<>>]), LAMBDA R :
        IF R.S.sig # "ok" THEN R.S
        ELSE Bind(IF HasMethod(R.S.heap[node.site].cls, "__init__", Len(node.args))
                  THEN ClassInstance_Call(R.S, node.site, "__init__", R.actual_args)
                  ELSE R.S,
                  LAMBDA S1 :
                      IF S1.sig # "ok" THEN S1
                      ELSE [S1 EXCEPT
                              !.heap = Append(@, [cls |-> @[node.site].cls,
                                                  fields |-> @[node.site].fields,
                                                  alive |-> TRUE, member |-> FALSE]),
                              !.val = Own(Len(S1.heap) + 1)]))

\* MethodCall::Execute that executes the arguments before it looks at the receiver
MethodCall_Execute_ArgsFirst(node, S) ==
    Bind(Execute(node.object, S), LAMBDA S1 :
        IF S1.sig # "ok" THEN S1
        ELSE IF Dangling(S1.heap, S1.val) THEN Crash(S1)
        ELSE Bind(ExecuteArgs(node.args, [S |-> S1, actual_args |-> <<>>]), LAMBDA R :
                 IF R.S.sig # "ok" THEN R.S
                 ELSE IF S1.val.k = "Inst"
                         /\ HasMethod(R.S.heap[S1.val.id].cls, node.method_name, Len(node.args))
                 THEN ClassInstance_Call(R.S, S1.val.id, node.method_name, R.actual_args)
                 ELSE Ok(R.S, NoneH)))

MethodCall_Execute(node, S) ==
    Bind(Execute(node.object, S), LAMBDA S1 :
        IF S1.sig # "ok" THEN S1
        ELSE IF Dangling(S1.heap, S1.val) THEN Crash(S1)
        ELSE IF S1.val.k = "Inst"
                /\ HasMethod(S1.heap[S1.val.id].cls, node.method_name, Len(node.args))
        THEN Bind(ExecuteArgs(node.args, [S |-> S1, actual_args |-> <<>>]), LAMBDA R :
                 IF R.S.sig # "ok" THEN R.S
                 ELSE ClassInstance_Call(R.S, S1.val.id, node.method_name, R.actual_args))
        ELSE Ok(S1, NoneH))

RECURSIVE Compound_Execute(_, _)
Compound_Execute(statements, S) ==
    IF statements = <<>> THEN Ok(S, NoneH)
    ELSE Bind(Execute(Head(statements), S), LAMBDA S1 :
             IF S1.sig # "ok" THEN S1 ELSE Compound_Execute(Tail(statements), S1))

Return_Execute(node, S) ==
    Bind(Execute(node.statement, S), LAMBDA S1 :
        IF S1.sig # "ok" THEN S1 ELSE [S1 EXCEPT !.sig = "return"])

\* MethodBody::Execute that takes the returned value but lets the Return go on
\* unwinding into the caller
MethodBody_Execute_Rethrow(node, S) ==
    Bind(Execute(node.body, S), LAMBDA S1 :
        IF S1.sig = "ok" THEN Ok(S1, NoneH) ELSE S1)

\* MethodBody::Execute whose catch takes every exception, not only the Return
MethodBody_Execute_CatchAll(node, S) ==
    Bind(Execute(node.body, S), LAMBDA S1 :
        IF S1.sig = "return" THEN [S1 EXCEPT !.sig = "ok"]
        ELSE IF S1.sig \in {"ok", "error"} THEN [S1 EXCEPT !.sig = "ok", !.val = NoneH]
        ELSE S1)

MethodBody_Execute(node, S) ==
    Bind(Execute(node.body, S), LAMBDA S1 :
        IF S1.sig = "return" THEN [S1 EXCEPT !.sig = "ok"]
        ELSE IF S1.sig = "ok" THEN Ok(S1, NoneH)
        ELSE S1)

(***************************************************************************)
(* Printing (Object::Print).                                               *)
(***************************************************************************)
Digit(d) == <<"0", "1", "2", "3", "4", "5", "6", "7", "8", "9">>[d + 1]

\* operator<< of an int
RECURSIVE NumChars(_)
NumChars(n) ==
    IF n < 0 THEN <<"-">> \o NumChars(-n)
    ELSE IF n < 10 THEN <<Digit(n)>>
    ELSE NumChars(n \div 10) \o <<Digit(n % 10)>>

Write(S, chars) == [S EXCEPT !.out = @ \o chars]

\* ValueObject<T>::Print of a Number or a String: os << value_
ValueObject_Print(S, h) ==
    IF h.k = "Number" THEN Write(S, NumChars(h.v)) ELSE Write(S, h.v)

Bool_Print(S, h) ==
    Write(S, IF h.v THEN <<"T", "r", "u", "e">> ELSE <<"F", "a", "l", "s", "e">>)

Class_Print(S, h) == Write(S, <<"C", "l", "a", "s", "s", " ">> \o <<h.v>>)

RECURSIVE Object_Print(_, _)

\* ClassInstance::Print of heap[id]; without __str__ it writes the address (this)
ClassInstance_Print(S, id) ==
    IF HasMethod(S.heap[id].cls, "__str__", 0)
    THEN Bind(ClassInstance_Call(S, id, "__str__", <<>>), LAMBDA S1 :
            IF S1.sig # "ok" THEN S1
            ELSE IF S1.val.k # "None" THEN Object_Print(S1, S1.val)
            ELSE S1)
    ELSE Write(S, <<"@">> \o NumChars(id))

\* obj->Print(os, context), the virtual call, on a non-empty holder
Object_Print(S, h) ==
    IF Dangling(S.heap, h) THEN Crash(S)
    ELSE CASE h.k \in {"Number", "String"} -> ValueObject_Print(S, h)
           [] h.k = "Bool"  -> Bool_Print(S, h)
           [] h.k = "Class" -> Class_Print(S, h)
           [] h.k = "Inst"  -> ClassInstance_Print(S, h.id)

\* the loop of Print::Execute writing the space after every argument instead of
\* before every argument but the first
RECURSIVE Print_Loop_TrailingSpace(_, _, _)
Print_Loop_TrailingSpace(args, first_arg, S) ==
    IF args = <<>> THEN S
    ELSE Bind(Execute(Head(args), S), LAMBDA S1 :
             IF S1.sig # "ok" THEN S1
             ELSE Bind(IF S1.val.k # "None" THEN Object_Print(S1, S1.val)
                       ELSE Write(S1, <<"N", "o", "n", "e">>),
                       LAMBDA S2 : IF S2.sig # "ok" THEN S2
                                   ELSE Print_Loop_TrailingSpace(Tail(args), FALSE,
                                                                 Write(S2, <<" ">>))))

\* the loop of Print::Execute over args_
RECURSIVE Print_Loop(_, _, _)
Print_Loop(args, first_arg, S) ==
    IF args = <<>> THEN S
    ELSE Bind(Execute(Head(args), IF first_arg THEN S ELSE Write(S, <<" ">>)), LAMBDA S1 :
             IF S1.sig # "ok" THEN S1
             ELSE Bind(IF S1.val.k # "None" THEN Object_Print(S1, S1.val)
                       ELSE Write(S1, <<"N", "o", "n", "e">>),
                       LAMBDA S2 : IF S2.sig # "ok" THEN S2
                                   ELSE Print_Loop(Tail(args), FALSE, S2)))

Print_Execute(node, S) ==
    Bind(Print_Loop(node.args, TRUE, S), LAMBDA S1 :
        IF S1.sig # "ok" THEN S1 ELSE Ok(Write(S1, <<"\n">>), NoneH))

(***************************************************************************)
(* Operations.                                                             *)
(***************************************************************************)
\* the literal nodes (NumericConst, StringConst, BoolConst, None) return their value
Const_Execute(node, S) == Ok(S, node.v)

Add_Execute(node, S) ==
    IF node.lhs = Null \/ node.rhs = Null THEN Throw(S)
    ELSE Bind(Execute(node.lhs, S), LAMBDA S1 :
        IF S1.sig # "ok" THEN S1
        ELSE Bind(Execute(node.rhs, S1), LAMBDA S2 :
            IF S2.sig # "ok" THEN S2
            ELSE IF Dangling(S2.heap, S1.val) \/ Dangling(S2.heap, S2.val) THEN Crash(S2)
            ELSE IF S1.val.k = "Number" /\ S2.val.k = "Number"
                 THEN Ok(S2, NumberH(S1.val.v + S2.val.v))
            ELSE IF S1.val.k = "String" /\ S2.val.k = "String"
                 THEN Ok(S2, StringH(S1.val.v \o S2.val.v))
            ELSE IF S1.val.k = "Inst" /\ HasMethod(S2.heap[S1.val.id].cls, "__add__", 1)
                 THEN ClassInstance_Call(S2, S1.val.id, "__add__", <<S2.val>>)
            ELSE Throw(S2)))

\* Or::Execute without the short circuit: the right operand is always executed
Or_Execute_Eager(node, S) ==
    IF node.lhs = Null \/ node.rhs = Null THEN Throw(S)
    ELSE Bind(Execute(node.lhs, S), LAMBDA S1 :
        IF S1.sig # "ok" THEN S1
        ELSE IF Dangling(S1.heap, S1.val) THEN Crash(S1)
        ELSE Bind(Execute(node.rhs, S1), LAMBDA S2 :
            IF S2.sig # "ok" THEN S2
            ELSE IF Dangling(S2.heap, S2.val) THEN Crash(S2)
            ELSE Ok(S2, BoolH(IsTrue(S1.val) \/ IsTrue(S2.val)))))

Or_Execute(node, S) ==
    IF node.lhs = Null \/ node.rhs = Null THEN Throw(S)
    ELSE Bind(Execute(node.lhs, S), LAMBDA S1 :
        IF S1.sig # "ok" THEN S1
        ELSE IF Dangling(S1.heap, S1.val) THEN Crash(S1)
        ELSE IF IsTrue(S1.val) THEN Ok(S1, BoolH(TRUE))
        ELSE Bind(Execute(node.rhs, S1), LAMBDA S2 :
            IF S2.sig # "ok" THEN S2
            ELSE IF Dangling(S2.heap, S2.val) THEN Crash(S2)
            ELSE IF IsTrue(S2.val) THEN Ok(S2, BoolH(TRUE))
            ELSE Ok(S2, BoolH(FALSE))))

And_Execute(node, S) ==
    IF node.lhs = Null \/ node.rhs = Null THEN Throw(S)
    ELSE Bind(Execute(node.lhs, S), LAMBDA S1 :
        IF S1.sig # "ok" THEN S1
        ELSE IF Dangling(S1.heap, S1.val) THEN Crash(S1)
        ELSE IF ~IsTrue(S1.val) THEN Ok(S1, BoolH(FALSE))
        ELSE Bind(Execute(node.rhs, S1), LAMBDA S2 :
            IF S2.sig # "ok" THEN S2
            ELSE IF Dangling(S2.heap, S2.val) THEN Crash(S2)
            ELSE IF IsTrue(S1.val) /\ IsTrue(S2.val) THEN Ok(S2, BoolH(TRUE))
            ELSE Ok(S2, BoolH(FALSE))))

IfElse_Execute(node, S) ==
    Bind(Execute(node.condition, S), LAMBDA S1 :
        IF S1.sig # "ok" THEN S1
        ELSE IF Dangling(S1.heap, S1.val) THEN Crash(S1)
        ELSE IF IsTrue(S1.val) THEN Execute(node.if_body, S1)
        ELSE IF node.else_body # Null THEN Execute(node.else_body, S1)
        ELSE Ok(S1, NoneH))

\* Stringify::Execute that makes the empty string of the empty holder
Stringify_Execute_Blank(node, S) ==
    Bind(Execute(node.argument, S), LAMBDA S1 :
        IF S1.sig # "ok" THEN S1
        ELSE IF S1.val.k = "None" THEN Ok(S1, StringH(<<>>))
        ELSE Bind(Object_Print([S1 EXCEPT !.out = <<>>], S1.val), LAMBDA S2 :
                 IF S2.sig # "ok" THEN [S2 EXCEPT !.out = S1.out]
                 ELSE [S2 EXCEPT !.out = S1.out, !.val = StringH(S2.out)]))

\* Stringify::Execute: the argument is printed into a DummyContext, whose output
\* becomes the String; the output of the real context is left alone
Stringify_Execute(node, S) ==
    Bind(Execute(node.argument, S), LAMBDA S1 :
        IF S1.sig # "ok" THEN S1
        ELSE IF S1.val.k = "None" THEN Ok(S1, StringH(<<"N", "o", "n", "e">>))
        ELSE Bind(Object_Print([S1 EXCEPT !.out = <<>>], S1.val), LAMBDA S2 :
                 IF S2.sig # "ok" THEN [S2 EXCEPT !.out = S1.out]
                 ELSE [S2 EXCEPT !.out = S1.out, !.val = StringH(S2.out)]))

(***************************************************************************)
(* runtime.cpp: the comparisons.  Each returns the execution state with    *)
(* val the Bool holding the C++ bool, or with an exception in flight.      *)
(***************************************************************************)
\* the characters in the order of their codes (the order of std::string's <)
CharOrder ==
    <<"\n", " ", "0", "1", "2", "3", "4", "5", "6", "7", "8", "9",
      "A", "B", "C", "D", "E", "F", "G", "H", "I", "J", "K", "L", "M",
      "N", "O", "P", "Q", "R", "S", "T", "U", "V", "W", "X", "Y", "Z",
      "a", "b", "c", "d", "e", "f", "g", "h", "i", "j", "k", "l", "m",
      "n", "o", "p", "q", "r", "s", "t", "u", "v", "w", "x", "y", "z">>
CharCode(c) == CHOOSE i \in 1..Len(CharOrder) : CharOrder[i] = c

\* std::string operator<: lexicographic
RECURSIVE StringLess(_, _)
StringLess(a, b) ==
    IF b = <<>> THEN FALSE
    ELSE IF a = <<>> THEN TRUE
    ELSE IF CharCode(Head(a)) # CharCode(Head(b)) THEN CharCode(Head(a)) < CharCode(Head(b))
    ELSE StringLess(Tail(a), Tail(b))

Equal(lhs, rhs, S) ==
    IF lhs.k = "None" /\ rhs.k = "None" THEN Ok(S, BoolH(TRUE))
    ELSE IF Dangling(S.heap, lhs) \/ Dangling(S.heap, rhs) THEN Crash(S)
    ELSE IF lhs.k = "Number" /\ rhs.k = "Number" THEN Ok(S, BoolH(lhs.v = rhs.v))
    ELSE IF lhs.k = "String" /\ rhs.k = "String" THEN Ok(S, BoolH(lhs.v = rhs.v))
    ELSE IF lhs.k = "Bool" /\ rhs.k = "Bool" THEN Ok(S, BoolH(lhs.v = rhs.v))
    ELSE IF lhs.k = "Inst" /\ HasMethod(S.heap[lhs.id].cls, "__eq__", 1)
    THEN Bind(ClassInstance_Call(S, lhs.id, "__eq__", <<rhs>>), LAMBDA S1 :
            IF S1.sig # "ok" THEN S1
            ELSE IF Dangling(S1.heap, S1.val) THEN Crash(S1)
            ELSE Ok(S1, BoolH(IsTrue(S1.val))))
    ELSE Throw(S)

\* Less that holds of equal operands too
Less_Reflexive(lhs, rhs, S) ==
    IF lhs.k = "None" /\ rhs.k = "None" THEN Throw(S)
    ELSE IF Dangling(S.heap, lhs) \/ Dangling(S.heap, rhs) THEN Crash(S)
    ELSE IF lhs.k = "Number" /\ rhs.k = "Number" THEN Ok(S, BoolH(lhs.v <= rhs.v))
    ELSE IF lhs.k = "String" /\ rhs.k = "String"
    THEN Ok(S, BoolH(lhs.v = rhs.v \/ StringLess(lhs.v, rhs.v)))
    ELSE IF lhs.k = "Bool" /\ rhs.k = "Bool" THEN Ok(S, BoolH(lhs.v => rhs.v))
    ELSE IF lhs.k = "Inst" /\ HasMethod(S.heap[lhs.id].cls, "__lt__", 1)
    THEN Bind(ClassInstance_Call(S, lhs.id, "__lt__", <<rhs>>), LAMBDA S1 :
            IF S1.sig # "ok" THEN S1
            ELSE IF Dangling(S1.heap, S1.val) THEN Crash(S1)
            ELSE Ok(S1, BoolH(IsTrue(S1.val))))
    ELSE Throw(S)

Less(lhs, rhs, S) ==
    IF lhs.k = "None" /\ rhs.k = "None" THEN Throw(S)
    ELSE IF Dangling(S.heap, lhs) \/ Dangling(S.heap, rhs) THEN Crash(S)
    ELSE IF lhs.k = "Number" /\ rhs.k = "Number" THEN Ok(S, BoolH(lhs.v < rhs.v))
    ELSE IF lhs.k = "String" /\ rhs.k = "String" THEN Ok(S, BoolH(StringLess(lhs.v, rhs.v)))
    ELSE IF lhs.k = "Bool" /\ rhs.k = "Bool" THEN Ok(S, BoolH(~lhs.v /\ rhs.v))
    ELSE IF lhs.k = "Inst" /\ HasMethod(S.heap[lhs.id].cls, "__lt__", 1)
    THEN Bind(ClassInstance_Call(S, lhs.id, "__lt__", <<rhs>>), LAMBDA S1 :
            IF S1.sig # "ok" THEN S1
            ELSE IF Dangling(S1.heap, S1.val) THEN Crash(S1)
            ELSE Ok(S1, BoolH(IsTrue(S1.val))))
    ELSE Throw(S)

\* !b of a comparison that returned
Negated(S) == IF S.sig = "ok" THEN Ok(S, BoolH(~S.val.v)) ELSE S

NotEqual(lhs, rhs, S) == Negated(Equal(lhs, rhs, S))

LessOrEqual(lhs, rhs, S) ==
    Bind(Less(lhs, rhs, S), LAMBDA S1 :
        IF S1.sig # "ok" \/ S1.val.v THEN S1 ELSE Equal(lhs, rhs, S1))

Greater(lhs, rhs, S) == Negated(LessOrEqual(lhs, rhs, S))

GreaterOrEqual(lhs, rhs, S) == Negated(Less(lhs, rhs, S))

Comparison_Execute(node, S) ==
    IF node.lhs = Null \/ node.rhs = Null THEN Throw(S)
    ELSE Bind(Execute(node.lhs, S), LAMBDA S1 :
        IF S1.sig # "ok" THEN S1
        ELSE Bind(Execute(node.rhs, S1), LAMBDA S2 :
            IF S2.sig # "ok" THEN S2
            ELSE \* cmp_(l_obj, r_obj, context)
                 CASE node.cmp = "Equal"          -> Equal(S1.val, S2.val, S2)
                   [] node.cmp = "NotEqual"       -> NotEqual(S1.val, S2.val, S2)
                   [] node.cmp = "Less"           -> Less(S1.val, S2.val, S2)
                   [] node.cmp = "Greater"        -> Greater(S1.val, S2.val, S2)
                   [] node.cmp = "LessOrEqual"    -> LessOrEqual(S1.val, S2.val, S2)
                   [] node.cmp = "GreaterOrEqual" -> GreaterOrEqual(S1.val, S2.val, S2)))

\* Statement::Execute, the virtual call
Execute(node, S) ==
    CASE node.t = "Const"           -> Const_Execute(node, S)
      [] node.t = "VariableValue"   -> VariableValue_Execute(node, S)
      [] node.t = "Assignment"      -> Assignment_Execute(node, S)
      [] node.t = "FieldAssignment" -> FieldAssignment_Execute(node, S)
      [] node.t = "NewInstance"     -> NewInstance_Execute(node, S)
      [] node.t = "MethodCall"      -> MethodCall_Execute(node, S)
      [] node.t = "Compound"        -> Compound_Execute(node.statements, S)
      [] node.t = "Return"          -> Return_Execute(node, S)
      [] node.t = "MethodBody"      -> MethodBody_Execute(node, S)
      [] node.t = "Print"           -> Print_Execute(node, S)
      [] node.t = "Add"             -> Add_Execute(node, S)
      [] node.t = "Or"              -> Or_Execute(node, S)
      [] node.t = "And"             -> And_Execute(node, S)
      [] node.t = "IfElse"          -> IfElse_Execute(node, S)
      [] node.t = "Stringify"       -> Stringify_Execute(node, S)
      [] node.t = "Comparison"      -> Comparison_Execute(node, S)

(***************************************************************************)
(* Reference counting.  An instance is destroyed when the last owning      *)
(* holder of it goes: one in the root closure or in a field of a living    *)
(* instance.  A NewInstance node's member lives as long as the program.    *)
(* Holders that live only while a statement runs (locals, temporaries) are *)
(* gone when it ends, and the count is taken there.                        *)
(***************************************************************************)
Owned(hp, root, i) ==
    \/ \E n \in DOMAIN root : root[n] = Own(i)
    \/ \E j \in 1..Len(hp) :
          hp[j].alive /\ \E n \in DOMAIN hp[j].fields : hp[j].fields[n] = Own(i)

RECURSIVE Release(_, _)
Release(hp, root) ==
    LET dead == {i \in 1..Len(hp) : hp[i].alive /\ ~hp[i].member /\ ~Owned(hp, root, i)}
    IN  IF dead = {} THEN hp
        ELSE Release([i \in 1..Len(hp) |->
                        IF i \in dead THEN [hp[i] EXCEPT !.alive = FALSE,
                                                         !.fields = EmptyClosure]
                        ELSE hp[i]], root)

(***************************************************************************)
(* The run: RunMythonProgram executes the program's top-level statements   *)
(* in order against the root closure (the loop of the root Compound).      *)
(***************************************************************************)
\* top-level statements executed in one run
MaxSteps == 4

Vars == {"x", "y"}

NewZ == New(SiteOf("Z"), <<>>)
NewCounter == New(SiteOf("Counter"), <<>>)
NewDummy == New(SiteOf("Dummy"), <<>>)

\* the right-hand sides both variables are assigned
BasicExprs ==
    {Const(NumberH(0)), Const(NumberH(1)), Const(StringH(<<"s">>)), Const(NoneH),
     Var(<<"Counter">>), Var(<<"x">>), Var(<<"y">>), NewZ, NewCounter, NewDummy}

\* x.f(): the operand with side effects (it prints, and assigns a field)
SideEffect == Call(Var(<<"x">>), "f", <<>>)

LogicExprs ==
    {OrN(l, SideEffect) : l \in {Const(BoolH(TRUE)), Const(BoolH(FALSE)), Var(<<"y">>)}}
    \cup {AndN(l, SideEffect) : l \in {Const(BoolH(TRUE)), Const(BoolH(FALSE)), Var(<<"y">>)}}

CallExprs ==
    {Var(<<"x", "value">>), Var(<<"x", "value", "value">>),
     Call(Var(<<"x">>), "me", <<>>),
     Call(Var(<<"x">>), "get", <<Const(NumberH(0))>>),
     Call(Var(<<"x">>), "get", <<Const(NumberH(1))>>),
     Call(Var(<<"y">>), "relay", <<Var(<<"x">>), Const(NumberH(0))>>),
     Call(Var(<<"y">>), "relay", <<Var(<<"x">>), Const(NumberH(1))>>)}

AssignStmts ==
    {Assign(v, e) : v \in Vars, e \in BasicExprs}
    \cup {Assign("y", e) : e \in LogicExprs \cup CallExprs}

FieldStmts ==
    {FieldAssign(Var(<<"x">>), "value", Const(NumberH(1))),
     FieldAssign(Var(<<"y">>), "value", Const(NumberH(2))),
     FieldAssign(Var(<<"x">>), "other", Var(<<"y">>)),
     FieldAssign(Var(<<"y">>), "value", SideEffect),
     FieldAssign(Var(<<"y", "value">>), "value", NewCounter)}

PrintStmts ==
    {Prt(<<Var(<<"y">>)>>), Prt(<<Var(<<"x", "value">>)>>),
     Prt(<<Const(NumberH(1)), Var(<<"y", "other", "value">>)>>)}

CallStmts ==
    {Call(Var(<<"x">>), "add", <<>>),
     Call(Var(<<"y">>), "do_add", <<Var(<<"x">>)>>),
     Call(Var(<<"y">>), "put", <<Var(<<"x">>), Const(NumberH(3))>>),
     Call(Var(<<"x">>), "reg", <<Var(<<"y">>)>>),
     Call(Var(<<"x">>), "nope", <<>>),
     Call(Var(<<"x">>), "add", <<SideEffect>>),
     Call(Var(<<"y">>), "add", <<NewCounter>>),
     Call(Var(<<>>), "f", <<>>)}

\* program->Execute(closure, context) for one statement of the root Compound:
\* the values of <<closure, heap, output, status, result>> after it
After(node) ==
    Bind(Execute(node, [cl |-> <<closure>>, heap |-> heap, out |-> output,
                        sig |-> "ok", val |-> NoneH]),
         LAMBDA S : <<S.cl[1], Release(S.heap, S.cl[1]), S.out,
                      IF S.sig = "return" THEN "escaped" ELSE S.sig, S.val>>)

\* the run goes on: no exception has ended it
Running == status = "ok" /\ steps < MaxSteps

Init ==
    /\ LexInit
    /\ closure = [c \in ClassNames |-> ClassH(c)]
    /\ heap = [i \in Sites |-> [cls |-> CHOOSE c \in ClassNames : SiteOf(c) = i,
                                fields |-> EmptyClosure, alive |-> TRUE, member |-> TRUE]]
    /\ output = <<>>
    /\ status = "ok"
    /\ stmt = Null
    /\ result = NoneH
    /\ steps = 0

RunAssignment ==
    /\ Running
    /\ \E node \in AssignStmts :
          \E R \in {After(node)} :
             /\ closure' = R[1]
             /\ heap' = R[2]
             /\ output' = R[3]
             /\ status' = R[4]
             /\ result' = R[5]
             /\ stmt' = node
    /\ steps' = steps + 1
    /\ UNCHANGED lexvars

RunFieldAssignment ==
    /\ Running
    /\ \E node \in FieldStmts :
          \E R \in {After(node)} :
             /\ closure' = R[1]
             /\ heap' = R[2]
             /\ output' = R[3]
             /\ status' = R[4]
             /\ result' = R[5]
             /\ stmt' = node
    /\ steps' = steps + 1
    /\ UNCHANGED lexvars

RunPrint ==
    /\ Running
    /\ \E node \in PrintStmts :
          \E R \in {After(node)} :
             /\ closure' = R[1]
             /\ heap' = R[2]
             /\ output' = R[3]
             /\ status' = R[4]
             /\ result' = R[5]
             /\ stmt' = node
    /\ steps' = steps + 1
    /\ UNCHANGED lexvars

RunMethodCall ==
    /\ Running
    /\ \E node \in CallStmts :
          \E R \in {After(node)} :
             /\ closure' = R[1]
             /\ heap' = R[2]
             /\ output' = R[3]
             /\ status' = R[4]
             /\ result' = R[5]
             /\ stmt' = node
    /\ steps' = steps + 1
    /\ UNCHANGED lexvars

Next == RunAssignment \/ RunFieldAssignment \/ RunPrint \/ RunMethodCall

Spec == Init /\ [][Next]_vars

(***************************************************************************)
(* Runs of the second program: x is bound to new instances of its classes  *)
(* and methods are called on x, the result going to y.                     *)
(***************************************************************************)
MaxCalls == 3

InheritClasses == {"Base", "Mid", "Leaf"}
InheritMethods == {"who", "root", "mid", "leaf", "none"}

\* the calls that run into the runtime_error of boom or of Broken's __init__
RaisingCalls ==
    {Call(Var(<<"x">>), "boom", <<>>),
     Call(Var(<<"x">>), "outer", <<>>),
     Call(Var(<<"x">>), "cond", <<Const(BoolH(TRUE))>>),
     Call(Var(<<"x">>), "cond", <<Const(BoolH(FALSE))>>),
     Call(Var(<<"x">>), "make", <<>>)}

\* the calls of the methods of Scope
ScopeCalls ==
    {Call(Var(<<"x">>), "first", <<Const(NumberH(1)), Const(NumberH(2))>>),
     Call(Var(<<"x">>), "second", <<Const(NumberH(1)), Const(NumberH(2))>>),
     Call(Var(<<"x">>), "me", <<>>),
     Call(Var(<<"x">>), "local", <<Const(NumberH(5))>>),
     Call(Var(<<"x">>), "peek", <<>>),
     Call(Var(<<"x">>), "own", <<Const(NumberH(5))>>)}

\* the calls that execute the NewInstance node Tagged(flag) of make
FactoryCalls ==
    {Call(Var(<<"x">>), "make", <<Const(BoolH(flag))>>) : flag \in BOOLEAN}

\* x.f(), x.f(1) and x.f(1, 2)
OverloadCalls ==
    {Call(Var(<<"x">>), "f", args) :
        args \in {<<>>, <<Const(NumberH(1))>>, <<Const(NumberH(1)), Const(NumberH(2))>>}}


\* x = C()
DispatchNew ==
    /\ status = "ok"
    /\ steps < MaxCalls
    /\ \E c \in InheritClasses
                 \cup {"Faulty", "Broken", "Maker", "Scope", "Factory", "Over", "Narrow"} :
          \E R \in {After(Assign("x", New(SiteOf(c), <<>>)))} :
             /\ closure' = R[1]
             /\ heap' = R[2]
             /\ output' = R[3]
             /\ status' = R[4]
             /\ result' = R[5]
             /\ stmt' = Assign("x", New(SiteOf(c), <<>>))
    /\ steps' = steps + 1
    /\ UNCHANGED lexvars

\* y = x.m(...)
DispatchCall ==
    /\ status = "ok"
    /\ steps < MaxCalls
    /\ \E call \in {Call(Var(<<"x">>), m, <<>>) : m \in InheritMethods}
                    \cup RaisingCalls \cup ScopeCalls \cup FactoryCalls \cup OverloadCalls :
          \E R \in {After(Assign("y", call))} :
             /\ closure' = R[1]
             /\ heap' = R[2]
             /\ output' = R[3]
             /\ status' = R[4]
             /\ result' = R[5]
             /\ stmt' = Assign("y", call)
    /\ steps' = steps + 1
    /\ UNCHANGED lexvars

DispatchNext == DispatchNew \/ DispatchCall

DispatchSpec == Init /\ [][DispatchNext]_vars

(***************************************************************************)
(* Runs of a third program, which prints: x is bound to values of every    *)
(* kind, y to x or to str(x), and print statements write them.             *)
(***************************************************************************)
MaxPrints == 3

\* the literals and the class and instance expressions assigned to x
PrintedValues ==
    {Const(NoneH), Const(NumberH(57)), Const(NumberH(-8)),
     Const(StringH(<<"h", "i">>)), Const(StringH(<<>>)),
     Const(BoolH(TRUE)), Const(BoolH(FALSE)),
     Var(<<"Base">>), New(SiteOf("Base"), <<>>), New(SiteOf("Loud"), <<>>)}
    \cup {New(SiteOf("Named"), <<v>>) :
             v \in {Const(NoneH), Const(NumberH(1)), Const(StringH(<<"s">>)),
                    Const(BoolH(TRUE)), Var(<<"Base">>), Var(<<"y">>)}}

PrintedLists ==
    {<<>>, <<Var(<<"x">>)>>, <<Var(<<"y">>)>>, <<Var(<<"x">>), Var(<<"y">>)>>,
     <<Const(NumberH(10)), Const(NumberH(24)), Const(NumberH(-8))>>,
     <<Const(BoolH(TRUE)), Const(BoolH(FALSE))>>,
     <<Var(<<"y">>), Const(NoneH), Var(<<"x">>)>>}

\* x = value
PrintAssign ==
    /\ status = "ok"
    /\ steps < MaxPrints
    /\ \E e \in PrintedValues :
          \E R \in {After(Assign("x", e))} :
             /\ closure' = R[1]
             /\ heap' = R[2]
             /\ output' = R[3]
             /\ status' = R[4]
             /\ result' = R[5]
             /\ stmt' = Assign("x", e)
    /\ steps' = steps + 1
    /\ UNCHANGED lexvars

\* y = str(x) and y = x
PrintStringify ==
    /\ status = "ok"
    /\ steps < MaxPrints
    /\ \E e \in {Str(Var(<<"x">>)), Var(<<"x">>)} :
          \E R \in {After(Assign("y", e))} :
             /\ closure' = R[1]
             /\ heap' = R[2]
             /\ output' = R[3]
             /\ status' = R[4]
             /\ result' = R[5]
             /\ stmt' = Assign("y", e)
    /\ steps' = steps + 1
    /\ UNCHANGED lexvars

\* print a, b, ...
PrintPrint ==
    /\ status = "ok"
    /\ steps < MaxPrints
    /\ \E args \in PrintedLists :
          \E R \in {After(Prt(args))} :
             /\ closure' = R[1]
             /\ heap' = R[2]
             /\ output' = R[3]
             /\ status' = R[4]
             /\ result' = R[5]
             /\ stmt' = Prt(args)
    /\ steps' = steps + 1
    /\ UNCHANGED lexvars

PrintNext == PrintAssign \/ PrintStringify \/ PrintPrint

PrintSpec == Init /\ [][PrintNext]_vars

(***************************************************************************)
(* The comparisons as functions of their operands: the program starts with *)
(* x and y bound to any two values of Operands and compares them.          *)
(***************************************************************************)
MaxCompares == 2

Operands ==
    {NoneH, NumberH(-1), NumberH(1), BoolH(FALSE), BoolH(TRUE),
     StringH(<<>>), StringH(<<"a">>), StringH(<<"a", "b">>), StringH(<<"b">>)}

Comparators == {"Equal", "NotEqual", "Less", "Greater", "LessOrEqual", "GreaterOrEqual"}

CompareInit ==
    /\ LexInit
    /\ \E a \in Operands, b \in Operands :
          closure = Put(Put([c \in ClassNames |-> ClassH(c)], "x", a), "y", b)
    /\ heap = [i \in Sites |-> [cls |-> CHOOSE c \in ClassNames : SiteOf(c) = i,
                                fields |-> EmptyClosure, alive |-> TRUE, member |-> TRUE]]
    /\ output = <<>>
    /\ status = "ok"
    /\ stmt = Null
    /\ result = NoneH
    /\ steps = 0

\* r = x cmp x
CompareSelf ==
    /\ status = "ok"
    /\ steps < MaxCompares
    /\ \E cmp \in Comparators :
          \E R \in {After(Assign("r", Cmp(cmp, Var(<<"x">>), Var(<<"x">>))))} :
             /\ closure' = R[1]
             /\ heap' = R[2]
             /\ output' = R[3]
             /\ status' = R[4]
             /\ result' = R[5]
             /\ stmt' = Assign("r", Cmp(cmp, Var(<<"x">>), Var(<<"x">>)))
    /\ steps' = steps + 1
    /\ UNCHANGED lexvars

\* r = x cmp y
ComparePair ==
    /\ status = "ok"
    /\ steps < MaxCompares
    /\ \E cmp \in Comparators :
          \E R \in {After(Assign("r", Cmp(cmp, Var(<<"x">>), Var(<<"y">>))))} :
             /\ closure' = R[1]
             /\ heap' = R[2]
             /\ output' = R[3]
             /\ status' = R[4]
             /\ result' = R[5]
             /\ stmt' = Assign("r", Cmp(cmp, Var(<<"x">>), Var(<<"y">>)))
    /\ steps' = steps + 1
    /\ UNCHANGED lexvars

\* lt = x < y and gt = y < x
CompareOrder ==
    /\ status = "ok"
    /\ steps < MaxCompares
    /\ \E node \in {Assign("lt", Cmp("Less", Var(<<"x">>), Var(<<"y">>))),
                     Assign("gt", Cmp("Less", Var(<<"y">>), Var(<<"x">>)))} :
          \E R \in {After(node)} :
             /\ closure' = R[1]
             /\ heap' = R[2]
             /\ output' = R[3]
             /\ status' = R[4]
             /\ result' = R[5]
             /\ stmt' = node
    /\ steps' = steps + 1
    /\ UNCHANGED lexvars

CompareNext == CompareSelf \/ ComparePair \/ CompareOrder

CompareSpec == CompareInit /\ [][CompareNext]_vars

LexSpec == Init /\ [][LexNext]_vars

(***************************************************************************)
(* Properties.                                                             *)
(***************************************************************************)
\* this step executed the top-level statement node
Executed(node) == steps' = steps + 1 /\ stmt' = node

\* the value the left operand l of a LogicExprs node has before the statement
LeftDefined(l) == l.t = "Const" \/ ("y" \in DOMAIN closure /\ ~Dangling(heap, closure["y"]))
LeftValue(l) == IF l.t = "Const" THEN l.v ELSE closure["y"]

\* C1: `y = l or x.f()` with l truthy gives Bool(true), and `y = l and x.f()`
\* with l falsy gives Bool(false), and in both cases x.f() is not executed: the
\* statement only binds y (nothing is printed, no field of x is assigned).
C1_ShortCircuit ==
    [][\A e \in LogicExprs :
          (/\ Executed(Assign("y", e))
           /\ LeftDefined(e.lhs)
           /\ \/ e.t = "Or" /\ IsTrue(LeftValue(e.lhs))
              \/ e.t = "And" /\ ~IsTrue(LeftValue(e.lhs)))
          => /\ status' = "ok"
             /\ result' = BoolH(e.t = "Or")
             /\ closure' = Put(closure, "y", BoolH(e.t = "Or"))
             /\ output' = output
             /\ heap' = Release(heap, closure')]_vars

\* x is bound to a living instance of class c
HoldsInstanceOf(n, c) ==
    /\ n \in DOMAIN closure
    /\ closure[n].k = "Inst"
    /\ heap[closure[n].id].alive
    /\ heap[closure[n].id].cls = c

\* `y = y and x.f()` was cut short although x.f() could have run: x is a Z
C1_Witness ==
    /\ stmt = Assign("y", AndN(Var(<<"y">>), SideEffect))
    /\ result = BoolH(FALSE)
    /\ HoldsInstanceOf("x", "Z")
    /\ "hit" \notin DOMAIN heap[closure["x"].id].fields
    /\ output = <<>>

\* n and m are bound to the same living instance
SameInstance(n, m) ==
    /\ n \in DOMAIN closure /\ m \in DOMAIN closure
    /\ closure[n].k = "Inst" /\ closure[m].k = "Inst"
    /\ closure[n].id = closure[m].id
    /\ heap[closure[n].id].alive

\* the holder the expression n.value reads after the step
ValueAfter(n) == heap'[closure'[n].id].fields["value"]

\* one step of the program keeps two names of one instance in step (see C2)
C2_Step ==
    /\ \A v \in Vars, w \in Vars :
         (Executed(Assign(v, Var(<<w>>))) /\ w \in DOMAIN closure
             /\ closure[w].k = "Inst" /\ heap[closure[w].id].alive)
         => status' = "ok" /\ SameInstance(v, w)' /\ closure'[v].id = closure[w].id
    /\ \A n \in Vars, m \in Vars, k \in 1..2 :
         (Executed(FieldAssign(Var(<<n>>), "value", Const(NumberH(k)))) /\ SameInstance(n, m))
         => status' = "ok" /\ ValueAfter(m) = NumberH(k)
    /\ \A m \in Vars :
         (Executed(Call(Var(<<"x">>), "add", <<>>)) /\ SameInstance("x", m)
             /\ HoldsInstanceOf("x", "Counter")
             /\ heap[closure["x"].id].fields["value"].k = "Number")
         => status' = "ok"
            /\ ValueAfter(m) = NumberH(heap[closure["x"].id].fields["value"].v + 1)
    /\ (Executed(Call(Var(<<"y">>), "put", <<Var(<<"x">>), Const(NumberH(3))>>))
             /\ HoldsInstanceOf("y", "Dummy") /\ SameInstance("x", "x"))
         => status' = "ok" /\ ValueAfter("x") = NumberH(3)
    /\ (Executed(Call(Var(<<"y">>), "do_add", <<Var(<<"x">>)>>))
             /\ HoldsInstanceOf("y", "Dummy") /\ HoldsInstanceOf("x", "Counter")
             /\ heap[closure["x"].id].fields["value"].k = "Number")
         => status' = "ok"
            /\ ValueAfter("x") = NumberH(heap[closure["x"].id].fields["value"].v + 1)

\* C2: `v = w` with w an instance binds v to the very same instance, and from
\* then on a field written through one name is read through the other: written
\* directly (n.value = k), through self (x.add()), or through a parameter of
\* another object's method (y.put(x, 3), y.do_add(x)).
C2_VariablesAreReferences == [][C2_Step]_vars

\* the number of tokens of type ty among the first n of toks
CountOf(toks, ty, n) == Cardinality({i \in 1..n : toks[i].type = ty})

\* C3: when the Lexer constructor has returned, tokens_ holds as many Indent as
\* Dedent tokens, no prefix of it holds more Dedent than Indent tokens, and its
\* last token is Eof, the only Eof in it.
C3_IndentBalance ==
    lex_pc = "done" =>
        /\ CountOf(tokens_, "Indent", Len(tokens_)) = CountOf(tokens_, "Dedent", Len(tokens_))
        /\ \A n \in 0..Len(tokens_) :
              CountOf(tokens_, "Dedent", n) <= CountOf(tokens_, "Indent", n)
        /\ tokens_ # <<>>
        /\ tokens_[Len(tokens_)].type = "Eof"
        /\ CountOf(tokens_, "Eof", Len(tokens_)) = 1

\* a line of three leading spaces opened two levels, a line of one closed both
C3_Witness ==
    /\ lex_pc = "done"
    /\ CountOf(tokens_, "Indent", Len(tokens_)) = 2
    /\ CountOf(tokens_, "Dedent", Len(tokens_)) = 2
    /\ lex_line = <<" ", "a">>
    /\ tokens_[lex_mark + 1].type = "Dedent"
    /\ tokens_[lex_mark + 2].type = "Dedent"

\* the dotted name ids, read in closure c, has its first name unbound
Unbound(c, ids) == Head(ids) \notin DOMAIN c

\* the dotted name ids, read in closure c, has a bound non-final component that
\* is not a class instance (the components before it are living instances)
RECURSIVE NotAnObject(_, _)
NotAnObject(c, ids) ==
    /\ Len(ids) >= 2
    /\ Head(ids) \in DOMAIN c
    /\ \/ c[Head(ids)].k # "Inst"
       \/ /\ heap[c[Head(ids)].id].alive
          /\ NotAnObject(heap[c[Head(ids)].id].fields, Tail(ids))

ReadFails(ids) == Unbound(closure, ids) \/ NotAnObject(closure, ids)

\* the dotted name ids reads a holder that is bound and is not a class instance
ReadsNonInstance(ids) ==
    \/ Len(ids) = 1 /\ ids[1] \in DOMAIN closure /\ closure[ids[1]].k # "Inst"
    \/ /\ Len(ids) = 2
       /\ HoldsInstanceOf(ids[1], heap[closure[ids[1]].id].cls)
       /\ ids[2] \in DOMAIN heap[closure[ids[1]].id].fields
       /\ heap[closure[ids[1]].id].fields[ids[2]].k # "Inst"

\* the step raised std::runtime_error and changed nothing
RaisedWithoutEffect ==
    /\ status' = "error"
    /\ closure' = closure
    /\ heap' = heap
    /\ output' = output

C4_Step ==
    /\ \A node \in AssignStmts \cup PrintStmts :
          \A ids \in {<<"x", "value">>, <<"x", "value", "value">>} :
             (/\ Executed(node)
              /\ node \in {Assign("y", Var(ids)), Prt(<<Var(ids)>>)}
              /\ ReadFails(ids))
             => RaisedWithoutEffect
    /\ \A node \in FieldStmts :
          (/\ Executed(node)
           /\ ReadFails(node.object.dotted_ids) \/ ReadsNonInstance(node.object.dotted_ids))
          => RaisedWithoutEffect

\* C4: a statement that reads a dotted name whose first name is unbound or that
\* passes through a value that is not a class instance, and a field assignment
\* whose target fails so or is not a class instance, end the run with
\* std::runtime_error and leave closure, instances and output as they were; the
\* right-hand side of the field assignment (x.f(), Counter()) has not run.
C4_NameErrors == [][C4_Step]_vars

\* `y.value = x.f()` with y a Number and x a Z: the error, and x.f() did not run
C4_Witness ==
    /\ stmt = FieldAssign(Var(<<"y">>), "value", SideEffect)
    /\ status = "error"
    /\ "y" \in DOMAIN closure /\ closure["y"].k = "Number"
    /\ HoldsInstanceOf("x", "Z")
    /\ "hit" \notin DOMAIN heap[closure["x"].id].fields
    /\ output = <<>>

\* the receiver of the MethodCall node call is bound (or is the empty name)
ReceiverBound(call) ==
    call.object.dotted_ids = <<>>
    \/ (Len(call.object.dotted_ids) = 1 /\ call.object.dotted_ids[1] \in DOMAIN closure)

Receiver(call) ==
    IF call.object.dotted_ids = <<>> THEN NoneH ELSE closure[call.object.dotted_ids[1]]

\* class c declares a method of that name with that many parameters
Declares(c, name, argc) ==
    \E i \in DOMAIN ClassDef(c).methods :
        ClassDef(c).methods[i].name = name /\ Len(ClassDef(c).methods[i].formal_params) = argc

\* the receiver is not a class instance, or a living one without such a method
NothingToCall(call) ==
    /\ ReceiverBound(call)
    /\ \/ Receiver(call).k # "Inst"
       \/ /\ heap[Receiver(call).id].alive
          /\ ~Declares(heap[Receiver(call).id].cls, call.method_name, Len(call.args))

C5_Step ==
    /\ \A call \in CallStmts :
          (Executed(call) /\ NothingToCall(call))
          => /\ status' = "ok"
             /\ result' = NoneH
             /\ closure' = closure
             /\ heap' = heap
             /\ output' = output
    /\ \A call \in {e \in CallExprs : e.t = "MethodCall"} :
          (Executed(Assign("y", call)) /\ NothingToCall(call))
          => /\ status' = "ok"
             /\ result' = NoneH
             /\ closure' = Put(closure, "y", NoneH)
             /\ heap' = Release(heap, closure')
             /\ output' = output

\* C5: a method call whose receiver is a Number, String, Bool, Class or empty
\* holder, or an instance whose class has no method of that name and argument
\* count, returns the empty holder and raises nothing: the run goes on, nothing
\* is printed, and no binding or field changes, so its arguments (x.f(),
\* Counter()) were not executed.
C5_SilentMethodCall == [][C5_Step]_vars

\* `x.add(x.f())` on a Z, which has f but no add: empty, and x.f() did not run
C5_Witness ==
    /\ stmt = Call(Var(<<"x">>), "add", <<SideEffect>>)
    /\ status = "ok"
    /\ result = NoneH
    /\ HoldsInstanceOf("x", "Z")
    /\ "hit" \notin DOMAIN heap[closure["x"].id].fields
    /\ output = <<>>

\* what Counter.get(flag) returns and prints on instance i, read off its source:
\* "a", then with a truthy flag the return of self.value or "z" from inside two
\* nested if blocks, else "b" and the end of the body
GetResult(i, flag) ==
    IF flag = 0 THEN NoneH
    ELSE IF IsTrue(heap[i].fields["value"]) THEN heap[i].fields["value"]
    ELSE StringH(<<"z">>)
GetOutput(flag) == IF flag = 0 THEN <<"a", "\n", "b", "\n">> ELSE <<"a", "\n">>

C6_Step ==
    \A flag \in 0..1 :
       /\ (/\ Executed(Assign("y", Call(Var(<<"x">>), "get", <<Const(NumberH(flag))>>)))
           /\ HoldsInstanceOf("x", "Counter"))
          => /\ status' = "ok"
             /\ result' = GetResult(closure["x"].id, flag)
             /\ closure' = Put(closure, "y", result')
             /\ output' = output \o GetOutput(flag)
       /\ (/\ Executed(Assign("y", Call(Var(<<"y">>), "relay",
                                        <<Var(<<"x">>), Const(NumberH(flag))>>)))
           /\ HoldsInstanceOf("x", "Counter")
           /\ HoldsInstanceOf("y", "Dummy"))
          => /\ status' = "ok"
             /\ result' = GetResult(closure["x"].id, flag)
             /\ closure' = Put(closure, "y", result')
             /\ output' = output \o GetOutput(flag) \o <<"c", "\n">>

\* C6: a Return inside nested Compound and IfElse nodes ends its own method
\* body at once and hands its value to the caller: x.get(1) prints "a" and
\* neither "x" nor "b", and yields self.value or "z"; the caller's body goes on,
\* so y.relay(x, 1) still prints "c" and returns what get returned; a body that
\* ends without Return (x.get(0)) yields the empty holder.
C6_ReturnEndsMethodBody == [][C6_Step]_vars

\* y.relay(x, 1) with x.value truthy: "a", then "c", and the value of get
C6_Witness ==
    /\ stmt = Assign("y", Call(Var(<<"y">>), "relay", <<Var(<<"x">>), Const(NumberH(1))>>))
    /\ status = "ok"
    /\ HoldsInstanceOf("x", "Counter")
    /\ result.k = "Number"
    /\ result = heap[closure["x"].id].fields["value"]
    /\ output = <<"a", "\n", "c", "\n">>

\* the holders a program can still reach: the bindings of the root closure and
\* the fields of the living instances
ReachableHolders ==
    {closure[n] : n \in DOMAIN closure}
    \cup UNION {{heap[i].fields[f] : f \in DOMAIN heap[i].fields} :
                   i \in {j \in 1..Len(heap) : heap[j].alive}}

\* C7: every holder reachable from the closure or from a field of a living
\* instance refers to a living object; in particular no holder made from self
\* outlives its instance.
C7_NoDanglingHolder == \A h \in ReachableHolders : ~Dangling(heap, h)

\* C8: the Lexer constructor never gets stuck scanning a line: it is never in
\* the state where LoadTokens repeats a pass that consumes nothing (a character
\* that starts no token would end lexing with a LexerError instead).
C8_LexerTerminates == lex_pc # "hang"

\* the characters of line after its leading spaces
BodyOf(line) == SubSeq(line, CountSpaces(line) + 1, Len(line))

\* in b, a literal opened with quote q whose text starts at index i is closed:
\* an unescaped q follows (a backslash escapes the character after it)
RECURSIVE ClosedFrom(_, _, _)
ClosedFrom(b, i, q) ==
    IF i > Len(b) THEN FALSE
    ELSE IF b[i] = q THEN TRUE
    ELSE IF b[i] = "\\" THEN ClosedFrom(b, i + 2, q)
    ELSE ClosedFrom(b, i + 1, q)

\* the line starts with a string literal that is not terminated on the line
OpensUnterminated(line) ==
    /\ BodyOf(line) # <<>>
    /\ BodyOf(line)[1] \in {"\"", "'"}
    /\ ~ClosedFrom(BodyOf(line), 2, BodyOf(line)[1])

\* C9: a line that opens a string literal and never closes it contributes no
\* String token to tokens_ (lexing fails with a LexerError instead).
C9_NoUnterminatedString ==
    OpensUnterminated(lex_line) =>
        \A i \in (lex_mark + 1)..Len(tokens_) : tokens_[i].type # "String"

\* the instances NewInstance has returned that are still living
Returned(hp) == {i \in 1..Len(hp) : hp[i].alive /\ ~hp[i].member}

C10_Step ==
    /\ \A v \in Vars, node \in {NewZ, NewCounter, NewDummy} :
          Executed(Assign(v, node))
          => /\ status' = "ok"
             /\ result'.k = "Inst"
             /\ result'.id \notin 1..Len(heap)
             /\ result'.id \in Returned(heap')
             /\ closure'[v] = result'
             /\ \A i \in Returned(heap) \cap Returned(heap') :
                   heap'[i].fields = heap[i].fields
    /\ \A node \in FieldStmts :
          (/\ Executed(node)
           /\ status' = "ok"
           /\ Len(node.object.dotted_ids) = 1)
          => \A i \in Returned(heap') \ {closure[node.object.dotted_ids[1]].id} :
                /\ node.field_name \in DOMAIN heap'[i].fields
                       <=> node.field_name \in DOMAIN heap[i].fields
                /\ node.field_name \in DOMAIN heap[i].fields
                       => heap'[i].fields[node.field_name] = heap[i].fields[node.field_name]

\* C10: every execution of a NewInstance node, also a repeated one, returns an
\* instance that is none of the instances that existed before and leaves their
\* fields alone, and assigning a field of one instance changes that field in no
\* other instance.
C10_DistinctInstances == [][C10_Step]_vars

\* x = Counter(); y = Counter(); x.value = 1: two instances from one node, and
\* y.value still reads 0
C10_Witness ==
    /\ stmt = FieldAssign(Var(<<"x">>), "value", Const(NumberH(1)))
    /\ HoldsInstanceOf("x", "Counter")
    /\ HoldsInstanceOf("y", "Counter")
    /\ closure["x"].own /\ closure["y"].own
    /\ closure["x"].id # closure["y"].id
    /\ heap[closure["x"].id].fields["value"] = NumberH(1)
    /\ heap[closure["y"].id].fields["value"] = NumberH(0)

\* what a call of method m on an instance of class c of the inheriting program
\* is to return: the constant of the nearest definition, None when there is none
Inherited(c, m) ==
    CASE c = "Base" /\ m = "who"  -> StringH(<<"B">>)
      [] c = "Base" /\ m = "root" -> StringH(<<"r">>)
      [] c = "Mid"  /\ m = "who"  -> StringH(<<"M">>)
      [] c = "Mid"  /\ m = "root" -> StringH(<<"r">>)
      [] c = "Mid"  /\ m = "mid"  -> StringH(<<"m">>)
      [] c = "Leaf" /\ m = "who"  -> StringH(<<"M">>)
      [] c = "Leaf" /\ m = "root" -> StringH(<<"L">>)
      [] c = "Leaf" /\ m = "mid"  -> StringH(<<"m">>)
      [] c = "Leaf" /\ m = "leaf" -> StringH(<<"l">>)
      [] OTHER -> NoneH

\* C11: a call x.m() on a living instance of class c runs c's own m when c
\* defines one, otherwise the m of the nearest ancestor that defines one (Leaf
\* takes who from Mid, not from Base), and runs nothing only when neither c nor
\* any ancestor defines m.
C11_Step ==
    \A c \in InheritClasses, m \in InheritMethods :
       (Executed(Assign("y", Call(Var(<<"x">>), m, <<>>))) /\ HoldsInstanceOf("x", c))
       => /\ status' = "ok"
          /\ result' = Inherited(c, m)
          /\ (GetMethod(c, m) = <<>>) <=> (\A a \in InheritClasses :
                  (a = c \/ a = ClassDef(c).parent
                     \/ (ClassDef(c).parent # "" /\ a = ClassDef(ClassDef(c).parent).parent))
                  => \A i \in 1..Len(ClassDef(a).methods) : ClassDef(a).methods[i].name # m)
C11_MethodLookup == [][C11_Step]_vars

\* a Leaf took who from Mid, its parent, the nearest ancestor that defines it
C11_Witness ==
    /\ stmt = Assign("y", Call(Var(<<"x">>), "who", <<>>))
    /\ HoldsInstanceOf("x", "Leaf")
    /\ result = StringH(<<"M">>)
    /\ status = "ok"

\* what a call of RaisingCalls has printed when the runtime_error is raised
PrintedBeforeError(call) ==
    CASE call.method_name = "boom"  -> <<"1", "\n">>
      [] call.method_name = "outer" -> <<"o", "\n", "1", "\n">>
      [] call.method_name = "cond"  -> IF call.args[1].v.v THEN <<"1", "\n">>
                                       ELSE <<"o", "\n", "1", "\n">>
      [] call.method_name = "make"  -> <<"m", "\n", "i", "\n">>

\* C12: a runtime_error raised while a method body runs (directly, in a nested
\* call, inside an if, inside __init__ of a nested NewInstance) reaches the top
\* of the program: the statement ends with the error, it has printed only what
\* precedes the failing statement (nothing that follows it at any nesting level
\* is executed), it binds nothing, and no further statement of the program runs.
C12_Step ==
    /\ status = "ok"
    /\ \A call \in RaisingCalls :
         (/\ Executed(Assign("y", call))
          /\ HoldsInstanceOf("x", IF call.method_name = "make" THEN "Maker" ELSE "Faulty"))
         => /\ status' = "error"
            /\ output' = output \o PrintedBeforeError(call)
            /\ closure' = closure
            /\ heap' = heap
    /\ Executed(Assign("x", New(SiteOf("Broken"), <<>>)))
         => /\ status' = "error"
            /\ output' = output \o <<"i", "\n">>
            /\ closure' = closure
            /\ heap' = heap
C12_ErrorsPropagate == [][C12_Step]_vars

\* y = x.cond(False) failed three activations deep (cond, outer, boom)
C12_Witness ==
    /\ stmt = Assign("y", Call(Var(<<"x">>), "cond", <<Const(BoolH(FALSE))>>))
    /\ status = "error"
    /\ HoldsInstanceOf("x", "Faulty")
    /\ output = <<"o", "\n", "1", "\n">>

\* the step returned holder h to y and changed nothing else of the root closure
BindsOnlyY(h) ==
    /\ status' = "ok"
    /\ result' = h
    /\ closure' = Put(closure, "y", h)

\* C13: an activation sees exactly its formal parameters, each bound to the
\* argument at its position, and self bound to the receiver; it cannot read the
\* caller's variable x; and the caller's closure is afterwards what it was (plus
\* the y the statement assigns): the local t of the body is not in it.
C13_Step ==
    \A call \in ScopeCalls :
       (Executed(Assign("y", call)) /\ HoldsInstanceOf("x", "Scope"))
       => CASE call.method_name = "first"  -> BindsOnlyY(NumberH(1))
            [] call.method_name = "second" -> BindsOnlyY(NumberH(2))
            [] call.method_name = "me"     -> BindsOnlyY(Share(closure["x"].id))
            [] call.method_name = "local"  -> BindsOnlyY(NumberH(5))
            [] call.method_name = "peek"   -> status' = "error" /\ closure' = closure
            [] call.method_name = "own"    -> BindsOnlyY(Share(closure["x"].id))
C13_FreshEnvironment == [][C13_Step]_vars

\* the execution state a top-level statement starts from, with an empty output
Fresh == [cl |-> <<closure>>, heap |-> heap, out |-> <<>>, sig |-> "ok", val |-> NoneH]

\* what `print n` writes and what str(n) returns, in the current state
Printed(n) == Print_Execute(Prt(<<Var(<<n>>)>>), Fresh)
Stringified(n) == Stringify_Execute(Str(Var(<<n>>)), Fresh)

\* C14: for the value of every bound variable (None, a Number, a String, a
\* Bool, a Class, an instance with or without __str__, __str__ returning any of
\* these) str(n) is the String of the characters `print n` writes, without the
\* line feed that ends them; and the one raises exactly when the other does.
C14_StringifyIsPrint ==
    \A n \in DOMAIN closure :
       \E P \in {Printed(n)} : \E T \in {Stringified(n)} :
          /\ P.sig = T.sig
          /\ P.sig = "ok" =>
               /\ P.out # <<>>
               /\ P.out[Len(P.out)] = "\n"
               /\ T.val = StringH(SubSeq(P.out, 1, Len(P.out) - 1))

\* y = str(x) of a Loud x: the line __str__ prints is part of the String, as it
\* is part of what print x writes
C14_Witness ==
    /\ stmt = Assign("y", Str(Var(<<"x">>)))
    /\ HoldsInstanceOf("x", "Loud")
    /\ result = StringH(<<"q", "\n", "s">>)
    /\ closure["y"] = result
    /\ status = "ok"

\* the value of an argument of PrintedLists, a literal or a variable
ArgValue(a) == IF a.t = "Const" THEN a.v ELSE closure[a.dotted_ids[1]]

\* the argument is None, a Number, a String or a Bool
Plain(a) ==
    /\ a.t = "VariableValue" => a.dotted_ids[1] \in DOMAIN closure
    /\ ArgValue(a).k \in {"None", "Number", "String", "Bool"}

Rendering(h) ==
    CASE h.k = "None"   -> <<"N", "o", "n", "e">>
      [] h.k = "Bool"   -> IF h.v THEN <<"T", "r", "u", "e">> ELSE <<"F", "a", "l", "s", "e">>
      [] h.k = "Number" -> NumChars(h.v)
      [] h.k = "String" -> h.v

\* the renderings of the arguments with one space between neighbours
RECURSIVE Joined(_)
Joined(args) ==
    IF args = <<>> THEN <<>>
    ELSE IF Len(args) = 1 THEN Rendering(ArgValue(args[1]))
    ELSE Rendering(ArgValue(args[1])) \o <<" ">> \o Joined(Tail(args))

\* C15: print writes the renderings of its arguments in order, one space between
\* neighbours and one line feed at the end, None for the empty holder and True or
\* False for a Bool; print without arguments writes the line feed alone.
C15_Step ==
    \A args \in PrintedLists :
       (Executed(Prt(args)) /\ \A i \in 1..Len(args) : Plain(args[i]))
       => /\ status' = "ok"
          /\ output' = output \o Joined(args) \o <<"\n">>
          /\ args = <<>> => output' = output \o <<"\n">>
C15_PrintFormat == [][C15_Step]_vars

\* print y, None, x wrote a Bool, None and a Bool with single spaces between
C15_Witness ==
    /\ stmt = Prt(<<Var(<<"y">>), Const(NoneH), Var(<<"x">>)>>)
    /\ status = "ok"
    /\ output = <<"F", "a", "l", "s", "e", " ", "N", "o", "n", "e", " ",
                  "F", "a", "l", "s", "e", "\n">>

\* a Number, a String or a Bool
Primitive(h) == h.k \in {"Number", "String", "Bool"}

\* C16: on primitives of one kind x == x is true, x < x is false, x <= x is
\* true, and x < y and y < x are never both true.
C16_Step ==
    /\ \A cmp \in {"Equal", "Less", "LessOrEqual"} :
         (Executed(Assign("r", Cmp(cmp, Var(<<"x">>), Var(<<"x">>)))) /\ Primitive(closure["x"]))
         => /\ status' = "ok"
            /\ result' = BoolH(cmp # "Less")
            /\ closure' = Put(closure, "r", result')
    /\ \A node \in {Assign("lt", Cmp("Less", Var(<<"x">>), Var(<<"y">>))),
                    Assign("gt", Cmp("Less", Var(<<"y">>), Var(<<"x">>)))} :
         (Executed(node) /\ Primitive(closure["x"]) /\ closure["x"].k = closure["y"].k)
         => /\ status' = "ok"
            /\ result'.k = "Bool"
            /\ ({"lt", "gt"} \subseteq DOMAIN closure')
                  => ~(closure'["lt"].v /\ closure'["gt"].v)
C16_PrimitiveOrder == [][C16_Step]_vars

\* both x < y and y < x were computed for two distinct Strings, one a prefix of
\* the other
C16_Witness ==
    /\ closure["x"] = StringH(<<"a">>)
    /\ closure["y"] = StringH(<<"a", "b">>)
    /\ {"lt", "gt"} \subseteq DOMAIN closure
    /\ closure["lt"] = BoolH(TRUE)
    /\ closure["gt"] = BoolH(FALSE)

\* the fields __init__(flag) of Tagged assigns to the instance self
AssignedByInit(self, flag) ==
    IF flag THEN Put(Put(EmptyClosure, "me", Share(self)), "extra", NumberH(1))
    ELSE Put(EmptyClosure, "me", Share(self))

\* C17: every execution of the NewInstance node Tagged(flag) of make returns a
\* new instance whose fields are exactly those this execution's __init__ assigned
\* to self: extra only when flag is true, whatever earlier executions of the node
\* did, and me the returned instance itself (the self that __init__ saw).
C17_Step ==
    \A call \in FactoryCalls :
       (Executed(Assign("y", call)) /\ HoldsInstanceOf("x", "Factory"))
       => /\ status' = "ok"
          /\ result'.k = "Inst"
          /\ heap'[result'.id].alive
          /\ heap'[result'.id].fields = AssignedByInit(result'.id, call.args[1].v.v)
C17_FreshFields == [][C17_Step]_vars

\* C18: x.f(a1..an) runs the method named f that has n parameters, the class's
\* own before its ancestors': on an Over f(1) returns 1 and f(1, 2) returns 2, on
\* a Narrow f() returns 0 and f(1), f(1, 2) are Over's; Over has no f().
C18_Step ==
    \A call \in OverloadCalls, c \in {"Over", "Narrow"} :
       (Executed(Assign("y", call)) /\ HoldsInstanceOf("x", c))
       => /\ status' = "ok"
          /\ result' = IF Len(call.args) = 0
                       THEN (IF c = "Narrow" THEN NumberH(0) ELSE NoneH)
                       ELSE NumberH(Len(call.args))
C18_Overloading == [][C18_Step]_vars

\* the line is empty, all spaces, or its first character after the spaces is #
BlankEffective(line) == BodyOf(line) = <<>> \/ BodyOf(line)[1] = "#"

\* toks neither starts with a Newline nor holds two Newline tokens in a row
NoSpareNewline(toks) ==
    /\ toks # <<>> => toks[1].type # "Newline"
    /\ \A i \in 1..(Len(toks) - 1) : ~(toks[i].type = "Newline" /\ toks[i + 1].type = "Newline")

\* C19: a line that is blank or a full-line comment adds no token to tokens_ and
\* leaves indent_size_ alone; every other line the lexer gets through adds its
\* tokens, at least one and none of them a Newline, followed by exactly one
\* Newline; so tokens_ never starts with a Newline and never holds two in a row.
C19_Step ==
    /\ lex_used' # lex_used =>
         IF BlankEffective(lex_line')
         THEN tokens_' = tokens_ /\ indent_size_' = indent_size_
         ELSE lex_pc' # "hang" =>
                /\ Len(tokens_') >= Len(tokens_) + 2
                /\ SubSeq(tokens_', 1, Len(tokens_)) = tokens_
                /\ tokens_'[Len(tokens_')].type = "Newline"
                /\ \A i \in (Len(tokens_) + 1)..(Len(tokens_') - 1) :
                      tokens_'[i].type # "Newline"
    /\ lex_pc' # "hang" => NoSpareNewline(tokens_')
C19_LineTokens == [][C19_Step]_vars

\* an indented line, then a comment line at the margin: the comment line added
\* nothing after the Newline of the line before and left the indent open
C19_Witness ==
    /\ lex_pc = "lines"
    /\ lex_line = <<"#">>
    /\ indent_size_ = 2
    /\ lex_mark = Len(tokens_)
    /\ Len(tokens_) = 3
    /\ tokens_[1].type = "Indent"
    /\ tokens_[3].type = "Newline"

\* what printing holder h writes, in the current state
PrintedValue(h) == Print_Execute(Prt(<<Const(h)>>), Fresh)

\* C20: print x of a living instance x of Named, whose __str__ returns the field
\* v, writes what printing the value of v writes, whatever v holds: None, a
\* Number, a String, a Bool, a Class or another instance.
C20_Step ==
    (Executed(Prt(<<Var(<<"x">>)>>)) /\ HoldsInstanceOf("x", "Named"))
    => \E P \in {PrintedValue(heap[closure["x"].id].fields["v"])} :
          /\ P.sig = "ok"
          /\ status' = "ok"
          /\ output' = output \o P.out
C20_PrintsStrResult == [][C20_Step]_vars

====
